---- MODULE Spec2Model ----
(***************************************************************************)
(* A model of the database response sanitizer (DatabaseSanitizer):         *)
(* sanitizeObject / extractPropertyValue / validateAndSanitizeValue over   *)
(* a heap of driver objects, and the batch orchestration of sanitizeArray  *)
(* / processBatch / extractClobData as a state machine whose suspension    *)
(* points are the awaits of the code.                                      *)
(***************************************************************************)
EXTENDS Integers, Sequences, FiniteSets, TLC

(***************************************************************************)
(* Bounds of the model.                                                    *)
(***************************************************************************)
\* longest nested array / property list of a generated driver object
MaxItems == 1
\* longest record array handed to sanitizeArray
MaxLen == 3
\* largest batchSize option handed to sanitizeArray
MaxBatch == 2
MaxLength == 2100
MaxRows == 2
MaxRowLen == 3
MaxFields == 2
MaxChars == 4

(***************************************************************************)
(* JavaScript values.  A primitive carries its own tag; an object is a     *)
(* reference into a heap, so that identity and cycles can be expressed.    *)
(***************************************************************************)
Null == [t |-> "null"]
Undef == [t |-> "undef"]
Str(s) == [t |-> "str", s |-> s]
Num(n) == [t |-> "num", n |-> n]
\* NaN, +Infinity and -Infinity: the numbers isNaN / !isFinite reject
NaNV == [t |-> "nan"]
\* Infinity, and -Infinity when neg
InfinityV(neg) == [t |-> "inf", neg |-> neg]
\* the number k/2 for an odd k: a number that is no integer
Half(k) == [t |-> "half", k |-> k]
\* typeof v === 'number'
IsNumber(v) == v.t \in {"num", "nan", "inf", "half"}
\* twice the number v, v finite
Twice(v) == IF v.t = "half" THEN v.k ELSE 2 * v.n
\* v <= 0: false for NaN
NotPositive(v) ==
  IF v.t = "inf" THEN v.neg ELSE v.t # "nan" /\ Twice(v) <= 0
Bool(b) == [t |-> "bool", b |-> b]
Func == [t |-> "func"]
Ref(i) == [t |-> "ref", id |-> i]

\* typeof v === 'object' for a non-null v
IsObject(v) == v.t = "ref"

(***************************************************************************)
(* Driver objects, classified by the members the code probes for:          *)
(*   wrapped : has an own 'value' property (a getter that throws when      *)
(*             throws is TRUE)                                             *)
(*   clob    : no own 'value', getData is a function                       *)
(*   array   : Array.isArray                                               *)
(*   plain   : constructor === Object, props is the list of own properties *)
(*   date    : instanceof Date (toISOString throws when invalid)           *)
(*   other   : any other object (String(o) throws when strOk is FALSE)     *)
(***************************************************************************)
Wrapped(v) == [k |-> "wrapped", v |-> v, throws |-> FALSE]
WrappedThrows == [k |-> "wrapped", v |-> Undef, throws |-> TRUE]
Clob == [k |-> "clob"]
Arr(items) == [k |-> "array", items |-> items]
Plain(props) == [k |-> "plain", props |-> props]
DateObj(valid) == [k |-> "date", valid |-> valid]
Other(strOk) == [k |-> "other", strOk |-> strOk]
\* one own property: a data property, or an accessor whose getter throws
Prop(key, v) == [key |-> key, v |-> v, throws |-> FALSE]
PropThrows(key) == [key |-> key, v |-> Undef, throws |-> TRUE]

\* the characters of a string: "a" a printable character, " " white space,
\* "c" a control character (U+0000..U+001F, U+007F)
IsoString == <<"d">>
ObjectString == <<" ", "o">>

(***************************************************************************)
(* Field mappings.  Object.entries order is kept: a mapping is the list of *)
(* its (database field, clean field) pairs; null stands for a caller       *)
(* passing null where the mapping is expected.                             *)
(***************************************************************************)
ARTICLE_FIELD_NAMES ==
  << "ID", "TITLE", "SLUG", "CONTENT", "CATEGORY", "AUTHOR_ID", "CREATED_AT",
     "IMAGE_URL", "SOURCES", "VERIFICATION_DETAILS", "VERIFICATION_PDF_URL",
     "YOUTUBE_EMBED_URL" >>

ARTICLE_FIELD_MAPPING ==
  [t |-> "map",
   e |-> [i \in 1..Len(ARTICLE_FIELD_NAMES) |->
            <<ARTICLE_FIELD_NAMES[i], ARTICLE_FIELD_NAMES[i]>>]]

CLOB_FIELDS == <<"CONTENT", "SOURCES">>

\* a caller's own mapping (it has no entry for the CLOB fields)
CustomMapping == [t |-> "map", e |-> << <<"ID", "id">>, <<"TITLE", "title">> >>]
NullMapping == [t |-> "nomap"]
\* a mapping object one of whose own properties is a getter that throws
GetterMapping == [t |-> "getter"]

\* Object.entries(fieldMapping) throws: a TypeError for null, the getter's error
EntriesThrow(fieldMapping) == fieldMapping.t # "map"
\* Object.keys(fieldMapping) throws: it reads no property, so only for null
KeysThrow(fieldMapping) == fieldMapping.t = "nomap"

CleanFields(fieldMapping) ==
  {fieldMapping.e[i][2] : i \in 1..Len(fieldMapping.e)}

(***************************************************************************)
(* validateAndSanitizeValue                                                *)
(***************************************************************************)
RECURSIVE StripControl(_)
StripControl(s) ==
  IF s = <<>> THEN <<>>
  ELSE IF Head(s) = "c" THEN StripControl(Tail(s))
  ELSE <<Head(s)>> \o StripControl(Tail(s))

RECURSIVE TrimLeft(_)
TrimLeft(s) ==
  IF s # <<>> /\ Head(s) = " " THEN TrimLeft(Tail(s)) ELSE s

RECURSIVE TrimRight(_)
TrimRight(s) ==
  IF s # <<>> /\ s[Len(s)] = " " THEN TrimRight(SubSeq(s, 1, Len(s) - 1)) ELSE s

Trim(s) == TrimRight(TrimLeft(s))

\* a validation that trims a string before it removes the control characters
validateTrimmingFirst(value) ==
  IF value.t = "str" THEN Str(StripControl(Trim(value.s)))
  ELSE IF value.t \in {"nan", "inf"} THEN Null
  ELSE value

validateAndSanitizeValue(value) ==
  CASE value.t \in {"null", "undef"} -> value
    [] value.t = "str" -> Str(Trim(StripControl(value.s)))
    [] value.t = "nan" -> Null
    [] value.t = "inf" -> Null
    [] value.t = "num" -> value
    [] value.t = "bool" -> value
    [] OTHER -> value

(***************************************************************************)
(* extractPropertyValue.  The result carries the extracted value, the      *)
(* number of circular references detected, the number of logError calls    *)
(* and the visited set as the call leaves it.                              *)
(***************************************************************************)
XR(v, circ, errs, vis) == [v |-> v, circ |-> circ, errs |-> errs, vis |-> vis]

\* an output object built by the code: a clean map from keys to outputs
OutObj(props) == [t |-> "obj", props |-> props]
OutArr(items) == [t |-> "arr", items |-> items]

\* key.startsWith('_'), over the property names of the model
IsPrivateKey(key) == key \in {"_p"}

RECURSIVE extractPropertyValue(_, _, _)
RECURSIVE extractArrayItems(_, _, _, _)
RECURSIVE extractObjectProps(_, _, _, _)

\* property.map(item => extractPropertyValue(item, visitedObjects))
extractArrayItems(heap, items, i, acc) ==
  IF i > Len(items) THEN acc
  ELSE LET r == extractPropertyValue(heap, items[i], acc.vis)
       IN extractArrayItems(heap, items, i + 1,
            XR(Append(acc.v, r.v), acc.circ + r.circ, acc.errs + r.errs, r.vis))

\* the loop over Object.getOwnPropertyNames(property)
extractObjectProps(heap, props, i, acc) ==
  IF i > Len(props) THEN acc
  ELSE LET p == props[i]
       IN IF IsPrivateKey(p.key)
          THEN extractObjectProps(heap, props, i + 1, acc)
          ELSE IF p.throws
          THEN extractObjectProps(heap, props, i + 1,
                 XR(acc.v, acc.circ, acc.errs + 1, acc.vis))
          ELSE IF p.v.t = "func"
          THEN extractObjectProps(heap, props, i + 1, acc)
          ELSE LET r == extractPropertyValue(heap, p.v, acc.vis)
               IN extractObjectProps(heap, props, i + 1,
                    XR((p.key :> r.v) @@ acc.v, acc.circ + r.circ,
                       acc.errs + r.errs, r.vis))

extractPropertyValue(heap, property, visitedObjects) ==
  IF property.t \in {"null", "undef"}
  THEN XR(property, 0, 0, visitedObjects)
  ELSE IF ~IsObject(property)
  THEN XR(validateAndSanitizeValue(property), 0, 0, visitedObjects)
  ELSE IF property.id \in visitedObjects
  THEN XR(Null, 1, 0, visitedObjects)
  ELSE
    LET o == heap[property.id]
        entered == visitedObjects \cup {property.id}
        \* the finally block: visitedObjects.delete(property)
        leave(r) == XR(r.v, r.circ, r.errs, r.vis \ {property.id})
    IN CASE o.k = "wrapped" ->
              IF o.throws THEN leave(XR(Null, 0, 1, entered))
              ELSE leave(XR(validateAndSanitizeValue(o.v), 0, 0, entered))
         [] o.k = "clob" -> leave(XR(property, 0, 0, entered))
         [] o.k = "array" ->
              LET r == extractArrayItems(heap, o.items, 1, XR(<<>>, 0, 0, entered))
              IN leave(XR(OutArr(r.v), r.circ, r.errs, r.vis))
         [] o.k = "plain" ->
              LET r == extractObjectProps(heap, o.props, 1, XR(<<>>, 0, 0, entered))
              IN leave(XR(OutObj(r.v), r.circ, r.errs, r.vis))
         [] o.k = "date" ->
              IF o.valid THEN leave(XR(Str(IsoString), 0, 0, entered))
              ELSE leave(XR(Null, 0, 1, entered))
         [] OTHER ->
              IF o.strOk
              THEN leave(XR(validateAndSanitizeValue(Str(ObjectString)), 0, 0, entered))
              ELSE leave(XR(Null, 0, 0, entered))

(***************************************************************************)
(* createFallbackObject.  thrown is TRUE when the call throws: the catch   *)
(* block evaluates Object.keys(fieldMapping) for its log context before    *)
(* logError is entered.  fb counts fallbackObjectsCreated++.               *)
(***************************************************************************)
IS_FALLBACK == "_isFallback"
FALLBACK_REASON == "_fallbackReason"

MarkerFields(reason) ==
  (IS_FALLBACK :> Bool(TRUE)) @@ (FALLBACK_REASON :> Str(<<reason>>))

createFallbackObject(fieldMapping) ==
  IF ~EntriesThrow(fieldMapping)
  THEN [thrown |-> FALSE, fb |-> 1, errs |-> 0,
        v |-> MarkerFields("sanitization_failure")
              @@ [f \in CleanFields(fieldMapping) |-> Null]]
  ELSE IF KeysThrow(fieldMapping)
  THEN [thrown |-> TRUE, fb |-> 1, errs |-> 0, v |-> <<>>]
  ELSE [thrown |-> FALSE, fb |-> 1, errs |-> 1,
        v |-> MarkerFields("critical_failure")]

(***************************************************************************)
(* sanitizeObject.  The result carries the record, the counter increments  *)
(* (circ, errs, fb, san = sanitizationCount++) and the visited set as the  *)
(* call leaves it.                                                         *)
(***************************************************************************)
SR(v, circ, errs, fb, san, vis) ==
  [v |-> v, circ |-> circ, errs |-> errs, fb |-> fb, san |-> san, vis |-> vis]

\* Object.prototype.hasOwnProperty.call(o, key) for a heap object o
HasOwn(o, key) ==
  CASE o.k = "plain" -> \E i \in 1..Len(o.props) : o.props[i].key = key
    [] o.k = "wrapped" -> key = "value"
    [] OTHER -> FALSE

\* the own property key of a plain object
OwnProp(o, key) ==
  o.props[CHOOSE i \in 1..Len(o.props) : o.props[i].key = key]

\* reading o[dbField] throws: the property is an accessor whose getter throws
FieldThrows(o, dbField) ==
  o.k = "plain" /\ HasOwn(o, dbField) /\ OwnProp(o, dbField).throws

\* the value of the own property dbField of o
FieldValue(o, dbField) ==
  IF o.k = "plain" THEN OwnProp(o, dbField).v ELSE o.v

\* this.createFallbackObject() as sanitizeObject calls it: with no argument
sanitizeObjectFallback == createFallbackObject(ARTICLE_FIELD_MAPPING)

RECURSIVE sanitizeFields(_, _, _, _, _)
\* the loop over Object.entries(fieldMapping), one try/catch per field
sanitizeFields(heap, o, entries, i, acc) ==
  IF i > Len(entries) THEN acc
  ELSE
    LET dbField == entries[i][1]
        cleanField == entries[i][2]
    IN IF ~HasOwn(o, dbField)
       THEN sanitizeFields(heap, o, entries, i + 1, acc)
       ELSE IF FieldThrows(o, dbField)
       THEN sanitizeFields(heap, o, entries, i + 1,
              SR((cleanField :> Null) @@ acc.v, acc.circ, acc.errs + 1,
                 acc.fb, acc.san, acc.vis))
       ELSE
         LET r == extractPropertyValue(heap, FieldValue(o, dbField), acc.vis)
         IN sanitizeFields(heap, o, entries, i + 1,
              SR((cleanField :> r.v) @@ acc.v, acc.circ + r.circ,
                 acc.errs + r.errs, acc.fb, acc.san, r.vis))

\* a sanitizeObject that promotes a record with a failed field to a fallback
sanitizeObjectPromoting(heap, dbObject, fieldMapping, visitedObjects) ==
  LET fallback == sanitizeObjectFallback
  IN IF ~IsObject(dbObject) \/ EntriesThrow(fieldMapping)
     THEN SR(fallback.v, 0, 0, fallback.fb, 0, visitedObjects)
     ELSE
       LET r == sanitizeFields(heap, heap[dbObject.id], fieldMapping.e, 1,
                  SR(<<>>, 0, 0, 0, 0, visitedObjects \cup {dbObject.id}))
       IN IF r.errs > 0
          THEN SR(fallback.v, r.circ, r.errs, fallback.fb, 0, r.vis \ {dbObject.id})
          ELSE SR(r.v, r.circ, r.errs, r.fb, 1, r.vis \ {dbObject.id})

\* a sanitizeObject that forgets visitedObjects.add(dbObject)
sanitizeObjectNoAdd(heap, dbObject, fieldMapping, visitedObjects) ==
  LET fallback == sanitizeObjectFallback
  IN IF ~IsObject(dbObject) \/ EntriesThrow(fieldMapping)
     THEN SR(fallback.v, 0, 0, fallback.fb, 0, visitedObjects)
     ELSE
       LET r == sanitizeFields(heap, heap[dbObject.id], fieldMapping.e, 1,
                  SR(<<>>, 0, 0, 0, 0, visitedObjects))
       IN SR(r.v, r.circ, r.errs, r.fb, 1, r.vis \ {dbObject.id})

\* a sanitizeObject that sets the mapped fields absent from the input to null
sanitizeObjectNullFill(heap, dbObject, fieldMapping, visitedObjects) ==
  LET fallback == sanitizeObjectFallback
  IN IF ~IsObject(dbObject) \/ EntriesThrow(fieldMapping)
     THEN SR(fallback.v, 0, 0, fallback.fb, 0, visitedObjects)
     ELSE
       LET r == sanitizeFields(heap, heap[dbObject.id], fieldMapping.e, 1,
                  SR(<<>>, 0, 0, 0, 0, visitedObjects \cup {dbObject.id}))
       IN SR(r.v @@ [f \in CleanFields(fieldMapping) |-> Null],
             r.circ, r.errs, r.fb, 1, r.vis \ {dbObject.id})

\* a sanitizeObject that reads the CLOB handles it meets: the handle is
\* replaced by the text getData() gives
sanitizeObjectReading(heap, dbObject, fieldMapping, visitedObjects) ==
  LET fallback == sanitizeObjectFallback
  IN IF ~IsObject(dbObject) \/ EntriesThrow(fieldMapping)
          \/ dbObject.id \in visitedObjects
     THEN SR(fallback.v, 0, 0, fallback.fb, 0, visitedObjects)
     ELSE
       LET r == sanitizeFields(heap, heap[dbObject.id], fieldMapping.e, 1,
                  SR(<<>>, 0, 0, 0, 0, visitedObjects \cup {dbObject.id}))
       IN SR([f \in DOMAIN r.v |->
                IF IsObject(r.v[f]) /\ heap[r.v[f].id].k = "clob"
                THEN Str(<<"c">>) ELSE r.v[f]],
             r.circ, r.errs, r.fb, 1, r.vis \ {dbObject.id})

sanitizeObject(heap, dbObject, fieldMapping, visitedObjects) ==
  LET fallback == sanitizeObjectFallback
  IN IF ~IsObject(dbObject)
     THEN SR(fallback.v, 0, 0, fallback.fb, 0, visitedObjects)
     ELSE IF dbObject.id \in visitedObjects
     THEN SR(fallback.v, 1, 0, fallback.fb, 0, visitedObjects \ {dbObject.id})
     ELSE IF EntriesThrow(fieldMapping)
     THEN SR(fallback.v, 0, 1, fallback.fb, 0, visitedObjects \ {dbObject.id})
     ELSE
       LET r == sanitizeFields(heap, heap[dbObject.id], fieldMapping.e, 1,
                  SR(<<>>, 0, 0, 0, 0, visitedObjects \cup {dbObject.id}))
       IN SR(r.v, r.circ, r.errs, r.fb, 1, r.vis \ {dbObject.id})

\* PERFORMANCE_METRICS after a sanitizeObject call that returned r
CountObject(m, r) ==
  [m EXCEPT !.sanitizationCount = @ + r.san,
            !.errorCount = @ + r.errs,
            !.circularReferencesDetected = @ + r.circ,
            !.fallbackObjectsCreated = @ + r.fb]

(***************************************************************************)
(* extractClobData.  The loop over the requested fields runs until it has  *)
(* to await a getData call.  c is                                          *)
(*   [fields |-> clobFields, f |-> index of the field at hand,             *)
(*    data |-> extractedData, m |-> PERFORMANCE_METRICS,                   *)
(*    waiting |-> suspended at await getData()]                            *)
(***************************************************************************)
EmptyString == Str(<<>>)

\* !v : the values JavaScript takes for false
Falsy(v) ==
  v \in {Null, Undef, EmptyString, Num(0), NaNV, Bool(FALSE)}

\* v || ''
OrEmpty(v) == IF Falsy(v) THEN EmptyString ELSE v

\* clobProperty && typeof clobProperty.getData === 'function'
HasGetData(h, v) == IsObject(v) /\ h[v.id].k = "clob"

\* clobProperty && Object.prototype.hasOwnProperty.call(clobProperty, 'value')
HasValue(h, v) == IsObject(v) /\ h[v.id].k = "wrapped"

\* an object for which hasOwnProperty.call(o, key) throws (a Proxy whose
\* getOwnPropertyDescriptor trap throws); its `in` check throws as well, or
\* finds no property
Guarded(inThrows) == [k |-> "guarded", inThrows |-> inThrows]

ClobStateFor(fields, f, data, m, waiting) ==
  [fields |-> fields, f |-> f, data |-> data, m |-> m, waiting |-> waiting]

\* the state of a call with the default clobFields = CLOB_FIELDS
ClobState(f, data, m, waiting) == ClobStateFor(CLOB_FIELDS, f, data, m, waiting)

\* extractedData[clobField] = v, and on to the next field
SetField(c, v, m) ==
  [c EXCEPT !.f = @ + 1, !.data = (c.fields[c.f] :> v) @@ @, !.m = m,
            !.waiting = FALSE]

\* continue: the field is skipped, extractedData is left as it is
SkipField(c, m) == [c EXCEPT !.f = @ + 1, !.m = m, !.waiting = FALSE]

\* a resumption that gives up the fields not yet extracted when a getData
\* is rejected
RECURSIVE extractClobFields(_, _, _)
resumeClobFieldsAborting(h, o, c, outcome) ==
  IF outcome.ok
  THEN extractClobFields(h, o, SetField(c, OrEmpty(outcome.v), c.m))
  ELSE [c EXCEPT !.f = Len(c.fields) + 1,
                 !.data = [k \in {c.fields[i] : i \in c.f..Len(c.fields)}
                             |-> EmptyString] @@ @,
                 !.m = [c.m EXCEPT !.clobExtractionFailures = @ + 1,
                                   !.errorCount = @ + 1],
                 !.waiting = FALSE]

\* one field after it has been counted
extractClobField(h, o, c, clobField, counted) ==
  IF o.k = "guarded"
  THEN IF o.inThrows
       THEN extractClobFields(h, o,
              SkipField(c, [counted EXCEPT !.errorCount = @ + 1]))
       ELSE extractClobFields(h, o, SetField(c, EmptyString, counted))
  ELSE IF ~HasOwn(o, clobField)
  THEN extractClobFields(h, o, SetField(c, EmptyString, counted))
  ELSE IF FieldThrows(o, clobField)
  THEN extractClobFields(h, o,
         SetField(c, EmptyString,
                  [counted EXCEPT !.clobExtractionFailures = @ + 1,
                                  !.errorCount = @ + 1]))
  ELSE
    LET clobProperty == FieldValue(o, clobField)
    IN CASE HasGetData(h, clobProperty) ->
              [c EXCEPT !.m = counted, !.waiting = TRUE]
         [] HasValue(h, clobProperty) ->
              IF h[clobProperty.id].throws
              THEN extractClobFields(h, o,
                     SetField(c, EmptyString,
                              [counted EXCEPT !.errorCount = @ + 1]))
              ELSE extractClobFields(h, o,
                     SetField(c, OrEmpty(h[clobProperty.id].v), counted))
         [] clobProperty.t = "str" ->
              extractClobFields(h, o, SetField(c, clobProperty, counted))
         [] OTHER -> extractClobFields(h, o, SetField(c, EmptyString, counted))

\* for (const clobField of clobFields) from field c.f on, up to the await
extractClobFields(h, o, c) ==
  IF c.f > Len(c.fields) THEN c
  ELSE extractClobField(h, o, c, c.fields[c.f],
                        [c.m EXCEPT !.clobExtractionCount = @ + 1])

\* what a pending getData() call settles to
Resolved(v) == [ok |-> TRUE, v |-> v]
Rejected == [ok |-> FALSE]
GetDataOutcomes == {Resolved(Str(<<"x">>)), Resolved(Null), Rejected}

\* the await returns or throws: the field is set and the loop goes on
resumeClobFields(h, o, c, outcome) ==
  IF outcome.ok
  THEN extractClobFields(h, o, SetField(c, OrEmpty(outcome.v), c.m))
  ELSE extractClobFields(h, o,
         SetField(c, EmptyString,
                  [c.m EXCEPT !.clobExtractionFailures = @ + 1,
                              !.errorCount = @ + 1]))

(***************************************************************************)
(* processBatch.  A task is one call of it:                                *)
(*   status : "awaiting" (suspended at a getData), "resolved", "rejected"  *)
(*   batch, off : its records and the index before its first one in the   *)
(*                array                                                    *)
(*   i, f   : the record at hand and the CLOB field awaited                *)
(*   cur, data : sanitizedObject and extractedData of the record at hand   *)
(*   out    : sanitizedBatch                                               *)
(***************************************************************************)
ToLowerCase(field) ==
  CASE field = "CONTENT" -> "content"
    [] field = "SOURCES" -> "sources"
    [] field = "ID" -> "id"
    [] field = "TITLE" -> "title"
    [] field = "SLUG" -> "slug"
    [] field = "CUSTOM_FIELD" -> "custom_field"

\* fieldMapping[clobField] || clobField.toLowerCase()
MappedField(fieldMapping, clobField) ==
  LET hits == {i \in 1..Len(fieldMapping.e) : fieldMapping.e[i][1] = clobField}
  IN IF hits = {} THEN ToLowerCase(clobField)
     ELSE fieldMapping.e[CHOOSE i \in hits : TRUE][2]

Without(rec, key) == [k \in DOMAIN rec \ {key} |-> rec[k]]

RECURSIVE mergeClobDataKeeping(_, _, _, _)
\* a merge that writes every extracted value, the empty string included
mergeClobDataKeeping(fieldMapping, data, j, acc) ==
  IF j > Len(CLOB_FIELDS) THEN acc
  ELSE IF CLOB_FIELDS[j] \notin DOMAIN data
  THEN mergeClobDataKeeping(fieldMapping, data, j + 1, acc)
  ELSE IF KeysThrow(fieldMapping)
  THEN mergeClobDataKeeping(fieldMapping, data, j + 1,
         [acc EXCEPT !.errs = @ + 1])
  ELSE mergeClobDataKeeping(fieldMapping, data, j + 1,
         [acc EXCEPT !.v = (MappedField(fieldMapping, CLOB_FIELDS[j])
                              :> data[CLOB_FIELDS[j]]) @@ @])

RECURSIVE mergeClobData(_, _, _, _)
\* the loop over Object.entries(clobData): a non-empty value overwrites the
\* field, an empty string deletes it; reading fieldMapping[clobField] of a
\* null mapping throws, which is caught and logged field by field
mergeClobData(fieldMapping, data, j, acc) ==
  IF j > Len(CLOB_FIELDS) THEN acc
  ELSE
    LET clobField == CLOB_FIELDS[j]
    IN IF clobField \notin DOMAIN data
       THEN mergeClobData(fieldMapping, data, j + 1, acc)
       ELSE IF KeysThrow(fieldMapping)
       THEN mergeClobData(fieldMapping, data, j + 1,
              [acc EXCEPT !.errs = @ + 1])
       ELSE
         LET mappedField == MappedField(fieldMapping, clobField)
         IN mergeClobData(fieldMapping, data, j + 1,
              [acc EXCEPT !.v = IF data[clobField] # EmptyString
                                THEN (mappedField :> data[clobField]) @@ @
                                ELSE Without(@, mappedField)])

\* CLOB_FIELDS.some(clobField => hasOwnProperty.call(dbObject, clobField))
hasClobFields(h, rec) ==
  IsObject(rec) /\ \E j \in 1..Len(CLOB_FIELDS) : HasOwn(h[rec.id], CLOB_FIELDS[j])

NewTask(batch, off) ==
  [status |-> "awaiting", batch |-> batch, off |-> off, i |-> 1, f |-> 1,
   cur |-> <<>>, data |-> <<>>, out |-> <<>>]

\* the mocked processBatch of the tests: a promise that is rejected
RejectedTask(batch, off) == [NewTask(batch, off) EXCEPT !.status = "rejected"]

TaskRun(task, m) == [task |-> task, m |-> m]

RECURSIVE processRecords(_, _, _, _)

\* sanitizedBatch.push(sanitizedObject) after the merge, and the next record
pushMerged(h, fieldMapping, task, m, merged) ==
  processRecords(h, fieldMapping,
    [task EXCEPT !.i = @ + 1, !.f = 1, !.cur = <<>>, !.data = <<>>,
                 !.out = Append(@, merged.v)],
    [m EXCEPT !.errorCount = @ + merged.errs])

\* extractClobData has returned c.data: merge it, push the record, go on
afterClobData(h, fieldMapping, task, cur, c) ==
  pushMerged(h, fieldMapping, task, c.m,
             mergeClobData(fieldMapping, c.data, 1, [v |-> cur, errs |-> 0]))

\* extractClobData(dbObject) has run to its first await, or to its end
awaitClobData(h, fieldMapping, task, cur, c) ==
  IF c.waiting
  THEN TaskRun([task EXCEPT !.f = c.f, !.cur = cur, !.data = c.data], c.m)
  ELSE afterClobData(h, fieldMapping, task, cur, c)

\* the body of the loop once sanitizeObject has returned s
processRecord(h, fieldMapping, task, m, rec, s) ==
  IF ~hasClobFields(h, rec)
  THEN processRecords(h, fieldMapping,
         [task EXCEPT !.i = @ + 1, !.out = Append(@, s.v)], CountObject(m, s))
  ELSE awaitClobData(h, fieldMapping, task, s.v,
         extractClobFields(h, h[rec.id],
                           ClobState(1, <<>>, CountObject(m, s), FALSE)))

\* the loop over the batch from record task.i on, up to the next await
processRecords(h, fieldMapping, task, m) ==
  IF task.i > Len(task.batch)
  THEN TaskRun([task EXCEPT !.status = "resolved"], m)
  ELSE processRecord(h, fieldMapping, task, m, task.batch[task.i],
         sanitizeObject(h, task.batch[task.i], fieldMapping, {}))

\* a pending getData of the task settles: the task runs to its next await
resumeTask(h, fieldMapping, task, m, outcome) ==
  awaitClobData(h, fieldMapping, task, task.cur,
    resumeClobFields(h, h[task.batch[task.i].id],
                     ClobState(task.f, task.data, m, TRUE), outcome))

\* processBatch(batch, fieldMapping) up to its first await
processBatch(h, fieldMapping, batch, off, m) ==
  processRecords(h, fieldMapping, NewTask(batch, off), m)

(***************************************************************************)
(* createBatches                                                           *)
(***************************************************************************)
RECURSIVE sliceFrom(_, _, _)
\* for (let i = 0; i < array.length; i += batchSize) array.slice(i, i + batchSize)
\* with i and batchSize counted in halves: slice truncates both of its
\* arguments to integers
sliceFrom(array, i, batchSize) ==
  IF i >= 2 * Len(array) THEN <<>>
  ELSE <<SubSeq(array, (i \div 2) + 1,
                IF (i + batchSize) \div 2 < Len(array)
                THEN (i + batchSize) \div 2 ELSE Len(array))>>
         \o sliceFrom(array, i + batchSize, batchSize)

\* a createBatches that leaves out a last batch shorter than batchSize
createBatchesWhole(array, batchSize) ==
  IF ~IsNumber(batchSize) \/ NotPositive(batchSize) THEN <<array>>
  ELSE IF batchSize = NaNV THEN << <<>> >>
  ELSE IF batchSize.t = "inf" THEN IF array = <<>> THEN <<>> ELSE <<array>>
  ELSE SelectSeq(sliceFrom(array, 0, Twice(batchSize)),
                 LAMBDA b : 2 * Len(b) >= Twice(batchSize))

\* a batchSize that is no number or is <= 0 throws into the catch, which
\* returns [array]; NaN passes the check, slice(0, NaN) is [] and
\* i += NaN ends the loop
createBatches(array, batchSize) ==
  IF ~IsNumber(batchSize) \/ NotPositive(batchSize) THEN <<array>>
  ELSE IF batchSize = NaNV THEN << <<>> >>
  ELSE IF batchSize.t = "inf" THEN IF array = <<>> THEN <<>> ELSE <<array>>
  ELSE sliceFrom(array, 0, Twice(batchSize))

(***************************************************************************)
(* State.                                                                  *)
(*   heap, mapping : the driver objects and the field mapping of the call  *)
(*   dbObject, objResult : the argument and the outcome of a sanitizeObject*)
(*                         call ("idle" before it)                         *)
(*   metrics : PERFORMANCE_METRICS (the counters)                          *)
(*   dbArray, options : the arguments of a sanitizeArray call              *)
(*   pc, calls, parallel, batches, tasks, batchIndex, results, result,     *)
(*   fateLog, dataLog : where that call stands (see sanitizeArray below)   *)
(*   fnCall : a call of a function that reads no state: its arguments     *)
(*            and, once it has returned, its result                        *)
(*   clobCall : a direct extractClobData call: its clobFields argument,    *)
(*              where it stands, and what each getData settled to          *)
(***************************************************************************)
VARIABLES heap, mapping, dbObject, objResult, metrics,
          dbArray, options, pc, calls, parallel, batches, tasks, batchIndex,
          results, result, fateLog, dataLog, clobCall, fnCall

vars == <<heap, mapping, dbObject, objResult, metrics,
          dbArray, options, pc, calls, parallel, batches, tasks, batchIndex,
          results, result, fateLog, dataLog, clobCall, fnCall>>

\* no extractClobData call of its own is under way
NoClobCall == [status |-> "off"]

\* no call of one of the pure functions is under way
NoFnCall == [fn |-> "none"]

\* the variables of a sanitizeArray call
arrayVars == <<dbArray, options, pc, calls, parallel, batches, tasks,
               batchIndex, results, result, fateLog, dataLog>>

\* PERFORMANCE_METRICS as the module is loaded, and after resetMetrics
ZeroMetrics ==
  [sanitizationCount |-> 0, errorCount |-> 0, clobExtractionCount |-> 0,
   clobExtractionFailures |-> 0, totalBatches |-> 0,
   parallelProcessingCount |-> 0, sequentialProcessingCount |-> 0,
   processedArrays |-> 0, circularReferencesDetected |-> 0,
   fallbackObjectsCreated |-> 0, batchSizeOptimizations |-> 0]

Idle == [state |-> "idle"]

(***************************************************************************)
(* The driver objects a sanitizeObject call is tried on.  Object 1 is the  *)
(* record; objects 2 and 3 are what its fields (and each other) refer to.  *)
(***************************************************************************)
ObjIds == {1, 2, 3}

Atoms ==
  {Null, Undef, Str(<<"a">>), Str(<<" ", "a", "c">>), Num(1), NaNV, Func}
    \cup {Ref(i) : i \in ObjIds}

\* what the members of a nested array or plain object are drawn from
ItemAtoms == {Str(<<" ", "a", "c">>), Func} \cup {Ref(i) : i \in ObjIds}

ItemProps ==
  {Prop(key, v) : key \in {"x", "_p"}, v \in ItemAtoms} \cup {PropThrows("x")}

SeqsUpTo(S, n) == UNION {[1..m -> S] : m \in 0..n}

DistinctKeys(props) ==
  \A i, j \in 1..Len(props) : i # j => props[i].key # props[j].key

Shapes ==
  {Wrapped(v) : v \in Atoms}
    \cup {WrappedThrows, Clob, DateObj(TRUE), DateObj(FALSE), Other(TRUE), Other(FALSE)}
    \cup {Arr(items) : items \in SeqsUpTo(ItemAtoms, MaxItems)}
    \cup {Plain(props) : props \in {ps \in SeqsUpTo(ItemProps, MaxItems) : DistinctKeys(ps)}}

\* object 3 only closes the longer paths: a cycle through two objects, a wrapper
\* inside a wrapper, a shared object
Shapes3 ==
  {Wrapped(Num(1)), Wrapped(Ref(2)), Clob, Arr(<<Ref(2)>>),
   Plain(<<Prop("x", Ref(1))>>), Plain(<<Prop("x", Ref(3))>>)}

\* a field of the record: absent, a getter that throws, or a value
FieldOptions(key, values) ==
  {<<>>, <<PropThrows(key)>>} \cup {<<Prop(key, v)>> : v \in values}

Records ==
  {Plain(id \o title \o extra) :
     id \in FieldOptions("ID", Atoms),
     title \in FieldOptions("TITLE", {Str(<<"a">>), Ref(2)}),
     extra \in {<<>>, <<Prop("EXTRA", Num(1))>>}}

\* what is passed where a record is expected but is none
NonObjects == {Null, Undef, Str(<<>>), Num(0), Bool(FALSE), Func}

DefaultHeap ==
  (1 :> Plain(<<Prop("ID", Ref(2)), Prop("TITLE", Str(<<"a">>))>>))
    @@ (2 :> Wrapped(Num(1))) @@ (3 :> Clob)

ObjMappings == {ARTICLE_FIELD_MAPPING, CustomMapping}
BadMappings == {NullMapping, GetterMapping}

InitObj ==
  /\ objResult = Idle
  /\ metrics = ZeroMetrics
  /\ dbArray = Null
  /\ options = [batchSize |-> Undef, parallel |-> Undef]
  /\ pc = "idle"
  /\ calls = 0
  /\ parallel = FALSE
  /\ batches = <<>>
  /\ tasks = <<>>
  /\ batchIndex = 0
  /\ results = <<>>
  /\ result = [state |-> "pending"]
  /\ fateLog = <<>>
  /\ dataLog = <<>>
  /\ clobCall = NoClobCall
  /\ fnCall = NoFnCall
  /\ \/ /\ mapping \in ObjMappings
        /\ dbObject = Ref(1)
        /\ \E r \in Records, s2 \in Shapes, s3 \in Shapes3 :
             heap = (1 :> r) @@ (2 :> s2) @@ (3 :> s3)
     \/ /\ mapping \in ObjMappings \cup BadMappings
        /\ dbObject \in NonObjects \cup {Ref(i) : i \in ObjIds}
        /\ heap = DefaultHeap

\* the visitedObjects argument: left out (a fresh Set), or the Set of a caller
\* that is itself working on the record
VisitedSets(record) ==
  {{}} \cup (IF IsObject(record) THEN {{record.id}} ELSE {})

\* DatabaseSanitizer.sanitizeObject(dbObject, mapping, visitedObjects); entry is
\* the visited set as the call found it, vis as it left it
SanitizeObjectCall ==
  /\ objResult = Idle
  /\ \E visited \in VisitedSets(dbObject) :
       LET r == sanitizeObject(heap, dbObject, mapping, visited)
       IN /\ objResult' = [state |-> "returned", v |-> r.v, vis |-> r.vis,
                           entry |-> visited]
          /\ metrics' = CountObject(metrics, r)
  /\ UNCHANGED <<heap, mapping, dbObject, arrayVars, clobCall, fnCall>>

NextObj == SanitizeObjectCall

SpecObj == InitObj /\ [][NextObj]_vars

(***************************************************************************)
(* sanitizeArray.  The call runs in stretches, each from one await to the  *)
(* next; a stretch is one step.  The record M carries what the call holds  *)
(* between them:                                                           *)
(*   pc       : "idle" before the call; "small", "seq" while it awaits a   *)
(*              processBatch; "join" while it awaits Promise.all; "retry"  *)
(*              inside a stretch, when the parallel catch is about to call *)
(*              sanitizeArray again; "done" once the promise has settled   *)
(*   calls    : how many times sanitizeArray has been entered              *)
(*   parallel : the parallel option of the latest call                     *)
(*   batches, batchIndex, results : its locals batches, i and results      *)
(*   tasks    : the processBatch calls made, by <<call, batch index>>      *)
(*   result   : the promise the caller holds                               *)
(*   fateLog  : what each processBatch / createBatches call was (the code, *)
(*              or a mock that throws or returns a rejected promise)       *)
(* and dataLog records, by <<call, index in dbArray, CLOB field>>, what    *)
(* each getData settled to and whether it did so ahead of a getData of an  *)
(* earlier batch.                                                          *)
(***************************************************************************)
ArrayOf(items) == [t |-> "array", items |-> items]
IsArray(v) == v.t = "array"

Pending == [state |-> "pending"]
Fulfilled(v) == [state |-> "fulfilled", v |-> v]
RejectedPromise == [state |-> "rejected"]

DEFAULT_BATCH_SIZE == 100
LARGE_ARRAY_LENGTH == 1000
MAX_OPTIMIZED_BATCH_SIZE == 200
MIN_OPTIMIZED_BATCH_SIZE == 50
OPTIMIZATION_DIVISOR == 10

Min(a, b) == IF a < b THEN a ELSE b
Max(a, b) == IF a > b THEN a ELSE b

\* let { batchSize = 100, parallel = false } = options || {}
optionBatchSize(opts) ==
  IF opts.batchSize = Undef THEN Num(DEFAULT_BATCH_SIZE) ELSE opts.batchSize
\* a destructuring that takes every call for a parallel one
optionParallelAlways(opts) == Bool(TRUE)

optionParallel(opts) ==
  IF opts.parallel = Undef THEN Bool(FALSE) ELSE opts.parallel

\* a sizing that never optimizes the batch size
effectiveBatchSizeAsGiven(len, opts) ==
  [size |-> IF ~IsNumber(optionBatchSize(opts))
               \/ NotPositive(optionBatchSize(opts))
            THEN Num(DEFAULT_BATCH_SIZE) ELSE optionBatchSize(opts),
   optimized |-> FALSE]

\* the batch size the call works with, and whether it was optimized
effectiveBatchSize(len, opts) ==
  LET given == optionBatchSize(opts)
      optimize == len > LARGE_ARRAY_LENGTH /\ given = Num(DEFAULT_BATCH_SIZE)
      batchSize ==
        IF optimize
        THEN Num(Min(MAX_OPTIMIZED_BATCH_SIZE,
                     Max(MIN_OPTIMIZED_BATCH_SIZE, len \div OPTIMIZATION_DIVISOR)))
        ELSE given
  IN [size |-> IF ~IsNumber(batchSize) \/ NotPositive(batchSize)
               THEN Num(DEFAULT_BATCH_SIZE) ELSE batchSize,
      optimized |-> optimize]

\* dbArray.length <= effectiveBatchSize: false for NaN
LengthWithin(len, size) ==
  size.t = "inf" \/ (size # NaNV /\ 2 * len <= Twice(size))

RECURSIVE FlattenBackwards(_)
\* a flattening that takes the batch results last to first
FlattenBackwards(batchResults) ==
  IF batchResults = <<>> THEN <<>>
  ELSE FlattenBackwards(Tail(batchResults)) \o Head(batchResults)

RECURSIVE Flatten(_)
\* results.push(...batchResult) for each batchResult in turn
Flatten(batchResults) ==
  IF batchResults = <<>> THEN <<>>
  ELSE Head(batchResults) \o Flatten(Tail(batchResults))

\* the index in dbArray before the first record of batch i
BatchOffset(bs, i) == Len(Flatten(SubSeq(bs, 1, i - 1)))

\* items.map(() => this.createFallbackObject(fieldMapping)): the first call
\* that throws ends the map
Fallbacks(n, fieldMapping) ==
  LET f == createFallbackObject(fieldMapping)
  IN IF n > 0 /\ f.thrown
     THEN [thrown |-> TRUE, v |-> <<>>, fb |-> f.fb, errs |-> f.errs]
     ELSE [thrown |-> FALSE, v |-> [i \in 1..n |-> f.v],
           fb |-> n * f.fb, errs |-> n * f.errs]

CountFallbacks(M, F) ==
  [M EXCEPT !.metrics.fallbackObjectsCreated = @ + F.fb,
            !.metrics.errorCount = @ + F.errs]

\* SanitizationLogger.logError
LogError(M) == [M EXCEPT !.metrics.errorCount = @ + 1]

LogFate(M, tid, fate) == [M EXCEPT !.fateLog = (tid :> fate) @@ @]

Settle(M, promise) == [M EXCEPT !.pc = "done", !.result = promise]

\* catch (criticalError): log, and the fallback array as the last resort
criticalCatch(M, items, fieldMapping) ==
  LET F == Fallbacks(Len(items), fieldMapping)
  IN Settle(CountFallbacks(LogError(M), F),
            IF F.thrown THEN RejectedPromise ELSE Fulfilled(F.v))

\* return dbArray.map(() => this.createFallbackObject(fieldMapping)) inside
\* the outer try
returnFallbacks(M, items, fieldMapping) ==
  LET F == Fallbacks(Len(items), fieldMapping)
      M1 == CountFallbacks(M, F)
  IN IF F.thrown THEN criticalCatch(M1, items, fieldMapping)
     ELSE Settle(M1, Fulfilled(F.v))

Fates == {"real", "reject", "throw"}

\* this.processBatch(batch, fieldMapping) is called and returns a promise
Started(M, tid, fate, run) ==
  [LogFate(M, tid, fate) EXCEPT !.tasks = (tid :> run.task) @@ @,
                                !.metrics = run.m]

startTask(M, h, fieldMapping, i, batch, fate) ==
  LET off == IF M.batches = <<>> THEN 0 ELSE BatchOffset(M.batches, i)
  IN Started(M, <<M.calls, i>>, fate,
             IF fate = "real"
             THEN processBatch(h, fieldMapping, batch, off, M.metrics)
             ELSE TaskRun(RejectedTask(batch, off), M.metrics))

\* catch (batchError) of the sequential loop, and what follows it
RECURSIVE sequentialLoop(_, _, _, _, _, _)
sequentialCatch(M, h, items, fieldMapping, i, fs) ==
  LET F == Fallbacks(Len(M.batches[i]), fieldMapping)
      M1 == CountFallbacks(LogError(M), F)
  IN IF F.thrown THEN criticalCatch(M1, items, fieldMapping)
     ELSE sequentialLoop([M1 EXCEPT !.results = @ \o F.v],
                         h, items, fieldMapping, i + 1, fs)

\* for (let i = 0; i < batches.length; i++) from batch i on, up to the await
sequentialLoop(M, h, items, fieldMapping, i, fs) ==
  IF i > Len(M.batches) THEN Settle(M, Fulfilled(M.results))
  ELSE IF fs[i] = "throw"
  THEN sequentialCatch(LogFate(M, <<M.calls, i>>, "throw"),
                       h, items, fieldMapping, i, fs)
  ELSE [startTask(M, h, fieldMapping, i, M.batches[i], fs[i])
          EXCEPT !.pc = "seq", !.batchIndex = i]

RECURSIVE parallelDispatch(_, _, _, _, _)
\* batches.map((batch, index) => this.processBatch(...).catch(...)) from
\* batch i on: a processBatch that throws ends the map in catch (parallelError)
parallelDispatch(M, h, fieldMapping, i, fs) ==
  IF i > Len(M.batches) THEN [M EXCEPT !.pc = "join"]
  ELSE IF fs[i] = "throw"
  THEN [LogError(LogFate(M, <<M.calls, i>>, "throw")) EXCEPT !.pc = "retry"]
  ELSE parallelDispatch(startTask(M, h, fieldMapping, i, M.batches[i], fs[i]),
                        h, fieldMapping, i + 1, fs)

\* sanitizeArray(dbArray, fieldMapping, options) from its entry to its first
\* await or its return; cb and fs say what createBatches and the processBatch
\* calls are
startCall(M, h, arr, fieldMapping, opts, cb, fs) ==
  LET M0 == [M EXCEPT !.calls = @ + 1,
                      !.parallel = ~Falsy(optionParallel(opts)),
                      !.batches = <<>>, !.results = <<>>, !.batchIndex = 0]
  IN IF ~IsArray(arr) \/ Len(arr.items) = 0 THEN Settle(M0, Fulfilled(<<>>))
     ELSE
       LET items == arr.items
           sizing == effectiveBatchSize(Len(items), opts)
           M1 == [M0 EXCEPT !.metrics.processedArrays = @ + 1,
                            !.metrics.batchSizeOptimizations =
                               @ + IF sizing.optimized THEN 1 ELSE 0]
       IN IF LengthWithin(Len(items), sizing.size)
          THEN IF fs[1] = "throw"
               THEN returnFallbacks(LogError(LogFate(M1, <<M1.calls, 1>>, "throw")),
                                    items, fieldMapping)
               ELSE [startTask(M1, h, fieldMapping, 1, items, fs[1])
                       EXCEPT !.pc = "small", !.batchIndex = 1]
          ELSE IF cb = "throw"
          THEN returnFallbacks(LogError(LogFate(M1, <<M1.calls, 0>>, "throw")),
                               items, fieldMapping)
          ELSE
            LET bs == createBatches(items, sizing.size)
                M2 == [M1 EXCEPT !.batches = bs,
                                 !.metrics.totalBatches = @ + Len(bs)]
            IN IF M2.parallel
               THEN parallelDispatch(
                      [M2 EXCEPT !.metrics.parallelProcessingCount = @ + 1],
                      h, fieldMapping, 1, fs)
               ELSE sequentialLoop(
                      [M2 EXCEPT !.metrics.sequentialProcessingCount = @ + 1],
                      h, items, fieldMapping, 1, fs)

\* a retry that passes the options on as they are
retryWithSameOptions(opts) == opts

\* { ...options, parallel: false }
retryOptions(opts) == [opts EXCEPT !.parallel = Bool(FALSE)]

\* the .catch handlers of the batch promises that are rejected: each logs
\* and builds the fallbacks of its batch; one that throws rejects the join
RECURSIVE batchHandlers(_, _, _, _, _)
batchHandlers(M, fieldMapping, i, acc, thrown) ==
  IF i > Len(M.batches)
  THEN [M |-> M, batchResults |-> acc, thrown |-> thrown]
  ELSE
    LET task == M.tasks[<<M.calls, i>>]
    IN CASE task.status = "resolved" ->
              batchHandlers(M, fieldMapping, i + 1, Append(acc, task.out), thrown)
         [] task.status = "rejected" ->
              LET F == Fallbacks(Len(task.batch), fieldMapping)
              IN batchHandlers(CountFallbacks(LogError(M), F), fieldMapping, i + 1,
                               IF F.thrown THEN acc ELSE Append(acc, F.v),
                               thrown \/ F.thrown)
         [] OTHER -> batchHandlers(M, fieldMapping, i + 1, acc, thrown)

(***************************************************************************)
(* The calls of sanitizeArray that are tried: arrays of up to MaxLen       *)
(* records (a record without CLOB fields, one with a CLOB handle and a     *)
(* CLOB string, and null), batch sizes up to MaxBatch and the invalid ones.*)
(***************************************************************************)
ArrayHeap ==
  (1 :> Plain(<<Prop("ID", Ref(3)), Prop("TITLE", Str(<<" ", "a">>))>>))
    @@ (2 :> Plain(<<Prop("ID", Num(1)), Prop("CONTENT", Ref(4)),
                     Prop("SOURCES", Str(<<"a">>))>>))
    @@ (3 :> Wrapped(Num(1))) @@ (4 :> Clob)

ArrayRecords == {Ref(1), Ref(2), Null}

ArrayInputs ==
  {ArrayOf(items) : items \in SeqsUpTo(ArrayRecords, MaxLen)}
    \cup {Null, Str(<<"a">>)}

ArrayMappings == {ARTICLE_FIELD_MAPPING, CustomMapping, NullMapping}

\* batch sizes that are no positive integer: a string, zero, a negative
\* number, NaN and 1.5
InvalidBatchSizes == {Str(<<"a">>), Num(0), Num(0 - 1), NaNV, Half(3)}

\* parallel options that are no boolean
InvalidParallels == {Str(<<"a">>), Num(0)}

OptionValues ==
  [batchSize : {Undef} \cup InvalidBatchSizes \cup {Num(n) : n \in 1..MaxBatch},
   parallel : {Undef, Bool(TRUE)} \cup InvalidParallels]

\* how many batches the call makes of arr (1 on the small path)
Dispatches(arr, opts) ==
  IF ~IsArray(arr) \/ Len(arr.items) = 0 THEN 0
  ELSE LET size == effectiveBatchSize(Len(arr.items), opts).size
       IN IF LengthWithin(Len(arr.items), size) THEN 1
          ELSE Len(createBatches(arr.items, size))

\* what the processBatch calls from batch `from` on are, and what
\* createBatches is: the code, or one of the mocks
FateChoices(n, from) ==
  {fs \in [1..n -> Fates] : \A i \in 1..(from - 1) : fs[i] = "real"}
CreateBatchesFates(n) == IF n > 1 THEN {"real", "throw"} ELSE {"real"}

Machine ==
  [pc |-> pc, calls |-> calls, parallel |-> parallel, batches |-> batches,
   tasks |-> tasks, batchIndex |-> batchIndex, results |-> results,
   result |-> result, metrics |-> metrics, fateLog |-> fateLog]

Becomes(M) ==
  \E M2 \in {M} :
    /\ pc' = M2.pc
    /\ calls' = M2.calls
    /\ parallel' = M2.parallel
    /\ batches' = M2.batches
    /\ tasks' = M2.tasks
    /\ batchIndex' = M2.batchIndex
    /\ results' = M2.results
    /\ result' = M2.result
    /\ metrics' = M2.metrics
    /\ fateLog' = M2.fateLog

Init ==
  /\ heap = ArrayHeap
  /\ mapping \in ArrayMappings
  /\ dbArray \in ArrayInputs
  /\ options \in OptionValues
  /\ pc = "idle"
  /\ calls = 0
  /\ parallel = FALSE
  /\ batches = <<>>
  /\ tasks = <<>>
  /\ batchIndex = 0
  /\ results = <<>>
  /\ result = Pending
  /\ fateLog = <<>>
  /\ dataLog = <<>>
  /\ clobCall = NoClobCall
  /\ fnCall = NoFnCall
  /\ metrics = ZeroMetrics
  /\ dbObject = Null
  /\ objResult = Idle

\* sanitizeArray is entered; when the parallel dispatch throws, the catch
\* enters it again within the same stretch
Retry(M1, opts, n) ==
  IF M1.pc # "retry" THEN Becomes(M1)
  ELSE \E cb \in CreateBatchesFates(n), fs \in FateChoices(n, 1) :
         Becomes(startCall(M1, heap, dbArray, mapping, retryOptions(opts), cb, fs))

Enter(M, opts) ==
  LET n == Dispatches(dbArray, opts)
  IN \E cb \in CreateBatchesFates(n), fs \in FateChoices(n, 1) :
       Retry(startCall(M, heap, dbArray, mapping, opts, cb, fs), opts, n)

\* DatabaseSanitizer.sanitizeArray(dbArray, mapping, options)
SanitizeArrayCall ==
  /\ pc = "idle"
  /\ Enter(Machine, options)
  /\ UNCHANGED <<heap, mapping, dbArray, options, dbObject, objResult, dataLog,
               clobCall, fnCall>>

\* a getData() promise settles and the processBatch awaiting it runs on
GetDataSettles ==
  \E tid \in DOMAIN tasks, outcome \in GetDataOutcomes :
    /\ tasks[tid].status = "awaiting"
    /\ LET task == tasks[tid]
           run == resumeTask(heap, mapping, task, metrics, outcome)
       IN /\ tasks' = [tasks EXCEPT ![tid] = run.task]
          /\ metrics' = run.m
          /\ dataLog' = (<<tid[1], task.off + task.i, task.f>> :>
                            [outcome |-> outcome,
                             early |-> \E t \in DOMAIN tasks :
                                         /\ t[1] = tid[1] /\ t[2] < tid[2]
                                         /\ tasks[t].status = "awaiting"])
                         @@ dataLog
    /\ UNCHANGED <<heap, mapping, dbArray, options, dbObject, objResult, pc,
                   calls, parallel, batches, batchIndex, results, result,
                   fateLog, clobCall, fnCall>>

\* the await of the small path returns or throws
SmallBatchSettles ==
  /\ pc = "small"
  /\ LET task == tasks[<<calls, 1>>]
     IN /\ task.status # "awaiting"
        /\ Becomes(IF task.status = "resolved"
                   THEN Settle(Machine, Fulfilled(task.out))
                   ELSE returnFallbacks(LogError(Machine), dbArray.items, mapping))
  /\ UNCHANGED <<heap, mapping, dbArray, options, dbObject, objResult, dataLog,
               clobCall, fnCall>>

\* the await of the sequential loop returns or throws, and the loop goes on
SequentialBatchSettles ==
  /\ pc = "seq"
  /\ LET task == tasks[<<calls, batchIndex>>]
     IN /\ task.status # "awaiting"
        /\ \E fs \in FateChoices(Len(batches), batchIndex + 1) :
             Becomes(IF task.status = "resolved"
                     THEN sequentialLoop([Machine EXCEPT !.results = @ \o task.out],
                                         heap, dbArray.items, mapping,
                                         batchIndex + 1, fs)
                     ELSE sequentialCatch(Machine, heap, dbArray.items, mapping,
                                          batchIndex, fs))
  /\ UNCHANGED <<heap, mapping, dbArray, options, dbObject, objResult, dataLog,
               clobCall, fnCall>>

\* Promise.race in the place of Promise.all: the join returns with the batches
\* settled so far
ParallelJoinEarly ==
  /\ pc = "join"
  /\ LET H == batchHandlers(Machine, mapping, 1, <<>>, FALSE)
     IN /\ ~H.thrown
        /\ Becomes(Settle(H.M, Fulfilled(Flatten(H.batchResults))))
  /\ UNCHANGED <<heap, mapping, dbArray, options, dbObject, objResult, dataLog,
               clobCall, fnCall>>

\* await Promise.all(batchPromises) returns: the results are flattened in
\* batch order
ParallelJoin ==
  /\ pc = "join"
  /\ \A i \in 1..Len(batches) : tasks[<<calls, i>>].status # "awaiting"
  /\ LET H == batchHandlers(Machine, mapping, 1, <<>>, FALSE)
     IN /\ ~H.thrown
        /\ Becomes(Settle(H.M, Fulfilled(Flatten(H.batchResults))))
  /\ UNCHANGED <<heap, mapping, dbArray, options, dbObject, objResult, dataLog,
               clobCall, fnCall>>

\* await Promise.all(batchPromises) throws, a .catch handler having thrown:
\* catch (parallelError) calls sanitizeArray again
ParallelJoinFails ==
  /\ pc = "join"
  /\ LET H == batchHandlers(Machine, mapping, 1, <<>>, FALSE)
     IN /\ H.thrown
        /\ Enter(LogError(H.M), retryOptions(options))
  /\ UNCHANGED <<heap, mapping, dbArray, options, dbObject, objResult, dataLog,
               clobCall, fnCall>>

Next ==
  \/ SanitizeArrayCall
  \/ GetDataSettles
  \/ SmallBatchSettles
  \/ SequentialBatchSettles
  \/ ParallelJoin
  \/ ParallelJoinFails

Spec == Init /\ [][Next]_vars

(***************************************************************************)
(* What a sanitizeArray call owes its caller, told from the logs alone.    *)
(***************************************************************************)
Outcome(call, pos, f) ==
  IF <<call, pos, f>> \in DOMAIN dataLog
  THEN dataLog[<<call, pos, f>>].outcome ELSE Rejected

RECURSIVE clobDataWith(_, _, _, _)
\* the CLOB data of record o when the getData of field f settles to outcomes[f]
clobDataWith(h, o, c, outcomes) ==
  IF ~c.waiting THEN c
  ELSE clobDataWith(h, o, resumeClobFields(h, o, c, outcomes[c.f]), outcomes)

MergedForm(h, rec, sanitized, outcomes) ==
  mergeClobData(mapping,
    clobDataWith(h, h[rec.id],
      extractClobFields(h, h[rec.id], ClobState(1, <<>>, ZeroMetrics, FALSE)),
      outcomes).data,
    1, [v |-> sanitized, errs |-> 0]).v

\* the sanitized form of input element pos, its CLOB handles having settled
\* as they did for call `call`
SanitizedForm(call, pos) ==
  IF ~hasClobFields(heap, dbArray.items[pos])
  THEN sanitizeObject(heap, dbArray.items[pos], mapping, {}).v
  ELSE MergedForm(heap, dbArray.items[pos],
         sanitizeObject(heap, dbArray.items[pos], mapping, {}).v,
         [f \in 1..Len(CLOB_FIELDS) |-> Outcome(call, pos, f)])

HasMarker(r) == IS_FALLBACK \in DOMAIN r /\ r[IS_FALLBACK] = Bool(TRUE)

Fate(call, i) ==
  IF <<call, i>> \in DOMAIN fateLog THEN fateLog[<<call, i>>] ELSE "none"

\* the batch the element at pos falls in
BatchIndexOf(pos) ==
  IF batches = <<>> THEN 1
  ELSE CHOOSE i \in 1..Len(batches) :
         BatchOffset(batches, i) < pos /\ pos <= BatchOffset(batches, i + 1)

NoMockedFailure == \A tid \in DOMAIN fateLog : fateLog[tid] = "real"

\* the batchSize option is NaN, which is no valid batch size and which the
\* validation lets through
BatchSizeIsNaN == optionBatchSize(options) = NaNV

\* the options of the call ask for the parallel mode and the array is batched
ParallelAsked ==
  /\ ~Falsy(optionParallel(options))
  /\ IsArray(dbArray) /\ Len(dbArray.items) > 0
  /\ ~LengthWithin(Len(dbArray.items),
                   effectiveBatchSize(Len(dbArray.items), options).size)

\* what a call without a retry returns, the batches having fared as they did
ExpectedElement(call, pos) ==
  IF Fate(call, 0) = "throw" \/ Fate(call, BatchIndexOf(pos)) \in {"throw", "reject"}
  THEN createFallbackObject(mapping).v
  ELSE SanitizedForm(call, pos)

ExpectedResult(call) ==
  IF BatchSizeIsNaN /\ Fate(call, 0) # "throw"
  THEN Fulfilled(<<>>)   \* createBatches made one empty batch of the array
  ELSE
  IF /\ \E tid \in DOMAIN fateLog : tid[1] = call /\ fateLog[tid] # "real"
     /\ createFallbackObject(mapping).thrown
  THEN RejectedPromise
  ELSE Fulfilled([pos \in 1..Len(dbArray.items) |-> ExpectedElement(call, pos)])

\* C1: for every array and every batch size but NaN, in sequential and in parallel
\* mode, sanitizeArray returns an array as long as the input whose element i
\* is the sanitized form of input element i, in whatever order the getData
\* calls of the batches complete
C1_OrderPreserved ==
  (pc = "done" /\ IsArray(dbArray) /\ NoMockedFailure /\ ~BatchSizeIsNaN) =>
    /\ result.state = "fulfilled"
    /\ Len(result.v) = Len(dbArray.items)
    /\ \A pos \in 1..Len(dbArray.items) : result.v[pos] = SanitizedForm(calls, pos)

\* a parallel call of several batches has returned, a getData of a later
\* batch having settled ahead of one of an earlier batch, with records that
\* differ
C1_Witness ==
  /\ pc = "done" /\ parallel /\ Len(batches) >= 2 /\ NoMockedFailure
  /\ result.state = "fulfilled"
  /\ \E k \in DOMAIN dataLog : dataLog[k].early
  /\ \E i, j \in 1..Len(result.v) : result.v[i] # result.v[j]

\* C2: in sequential mode, when processBatch throws or rejects for batch k,
\* the positions of batch k hold one fallback record each, and every other
\* batch is processed and its records stand sanitized at their positions
C2_SequentialFailureIsolated ==
  (pc = "done" /\ IsArray(dbArray) /\ ~parallel /\ batches # <<>>) =>
    /\ result.state = "fulfilled"
    /\ Len(result.v) = Len(dbArray.items)
    /\ \A pos \in 1..Len(dbArray.items) :
         IF Fate(calls, BatchIndexOf(pos)) \in {"throw", "reject"}
         THEN HasMarker(result.v[pos])
         ELSE result.v[pos] = SanitizedForm(calls, pos)

\* C3: in parallel mode, when the processBatch promise of a batch is
\* rejected, the positions of that batch hold one fallback record each, the
\* other batches' results stand, and no sequential retry is made
C3_ParallelRejectionIsolated ==
  (/\ pc = "done" /\ ParallelAsked
   /\ \A tid \in DOMAIN fateLog : tid[1] = 1 => fateLog[tid] # "throw") =>
    /\ calls = 1
    /\ result.state = "fulfilled"
    /\ Len(result.v) = Len(dbArray.items)
    /\ \A pos \in 1..Len(dbArray.items) :
         IF Fate(1, BatchIndexOf(pos)) = "reject"
         THEN HasMarker(result.v[pos])
         ELSE result.v[pos] = SanitizedForm(1, pos)

\* the parallel dispatch of the first call failed as a whole: a processBatch
\* threw while the batch promises were made, or the join was rejected
DispatchThrew ==
  ParallelAsked /\ \E i \in 1..MaxLen : Fate(1, i) = "throw"
JoinRejected ==
  /\ ParallelAsked /\ pc # "idle" /\ ~DispatchThrew /\ Fate(1, 0) # "throw"
  /\ (calls = 1 => pc = "done")
  /\ createFallbackObject(mapping).thrown
  /\ ~BatchSizeIsNaN   \* the handler makes no fallback for an empty batch
  /\ \E i \in 1..MaxLen : Fate(1, i) = "reject"

\* C4: when the parallel dispatch fails as a whole, sanitizeArray calls itself
\* exactly once with the whole input and parallel: false; the retry runs
\* sequentially, makes no further retry, uses nothing of the parallel
\* results, and what it returns is what the original call returns
C4_RetryOnceSequential ==
  /\ calls <= 2
  /\ (DispatchThrew \/ JoinRejected) => calls = 2
  /\ calls = 2 =>
       /\ DispatchThrew \/ JoinRejected
       /\ ~parallel
       /\ pc \in {"seq", "done"}
       /\ pc = "done" => result = ExpectedResult(2)

\* a retry has returned records that differ from what the discarded parallel
\* call had got for them
C4_Witness ==
  /\ calls = 2 /\ pc = "done" /\ result.state = "fulfilled"
  /\ \E k \in DOMAIN dataLog :
       /\ k[1] = 1
       /\ <<2, k[2], k[3]>> \in DOMAIN dataLog
       /\ dataLog[<<2, k[2], k[3]>>].outcome # dataLog[k].outcome

\* C5: sanitizeArray never rejects: for every input, mapping and options, and
\* every failure of processBatch, createBatches, getData or a getter, it
\* resolves to an array
C5_NeverRejects ==
  /\ result.state # "rejected"
  /\ pc = "done" => (~IsArray(dbArray) => result = Fulfilled(<<>>))

(***************************************************************************)
(* Properties of sanitizeObject (checked under SpecObj).                   *)
(***************************************************************************)
\* a call that left visitedObjects to its default returned
Returned == objResult.state = "returned" /\ objResult.entry = {}

\* the call was made on an object with an enumerable mapping
ObjectCall == Returned /\ IsObject(dbObject) /\ mapping.t = "map"

SomeFieldThrows ==
  \E i \in 1..Len(mapping.e) : FieldThrows(heap[dbObject.id], mapping.e[i][1])

C7_FallbackHasMappedFields ==
  (Returned /\ mapping.t = "map" /\ IS_FALLBACK \in DOMAIN objResult.v) =>
    /\ objResult.v[IS_FALLBACK] = Bool(TRUE)
    /\ FALLBACK_REASON \in DOMAIN objResult.v
    /\ \A f \in CleanFields(mapping) :
         f \in DOMAIN objResult.v /\ objResult.v[f] = Null

(***************************************************************************)
(* What an output value holds, at any depth.  A reference left in an       *)
(* output is the driver's own object, with everything it reaches.          *)
(***************************************************************************)
\* the values a heap object holds directly
Members(o) ==
  CASE o.k = "wrapped" -> IF o.throws THEN {} ELSE {o.v}
    [] o.k = "array" -> {o.items[i] : i \in 1..Len(o.items)}
    [] o.k = "plain" ->
         {o.props[i].v : i \in {j \in 1..Len(o.props) : ~o.props[j].throws}}
    [] OTHER -> {}

RefsOf(h, ids) ==
  {v.id : v \in {m \in UNION {Members(h[i]) : i \in ids} : IsObject(m)}}

RECURSIVE ReachFrom(_, _)
\* the objects reachable from ids, ids included
ReachFrom(h, ids) ==
  LET next == ids \cup RefsOf(h, ids)
  IN IF next = ids THEN ids ELSE ReachFrom(h, next)

\* object i is a driver wrapper, has a function-valued member, or lies on a cycle
Unclean(h, i) ==
  \/ h[i].k \in {"wrapped", "clob"}
  \/ Func \in Members(h[i])
  \/ i \in ReachFrom(h, RefsOf(h, {i}))

RECURSIVE CleanValue(_, _)
CleanValue(h, out) ==
  CASE out.t = "func" -> FALSE
    [] out.t = "ref" -> \A i \in ReachFrom(h, {out.id}) : ~Unclean(h, i)
    [] out.t = "arr" -> \A i \in 1..Len(out.items) : CleanValue(h, out.items[i])
    [] out.t = "obj" -> \A key \in DOMAIN out.props : CleanValue(h, out.props[key])
    [] OTHER -> TRUE

\* C8 (as claimed): a returned record holds, at any depth, no cyclic
\* reference, no function-valued member and no driver wrapper object.
C8_OutputIsPlain ==
  Returned => \A f \in DOMAIN objResult.v : CleanValue(heap, objResult.v[f])

(***************************************************************************)
(* Back references.  The walk below follows what a mapped field holds      *)
(* through arrays and plain objects; private tells whether the members of  *)
(* a plain object under a private key ('_' prefix) count as part of it.    *)
(***************************************************************************)
Walked(p, private) ==
  ~p.throws /\ p.v.t # "func" /\ (private \/ ~IsPrivateKey(p.key))

RECURSIVE BackEdges(_, _, _, _)
\* how many references to an ancestor the walk from val meets
BackEdges(h, val, anc, private) ==
  IF ~IsObject(val) THEN 0
  ELSE IF val.id \in anc THEN 1
  ELSE
    LET o == h[val.id]
        below(v) == BackEdges(h, v, anc \cup {val.id}, private)
        Sum[n \in 0..MaxItems + 1] ==
          IF n = 0 THEN 0
          ELSE Sum[n - 1] +
               (CASE o.k = "array" /\ n <= Len(o.items) -> below(o.items[n])
                  [] o.k = "plain" /\ n <= Len(o.props) ->
                       IF Walked(o.props[n], private) THEN below(o.props[n].v) ELSE 0
                  [] OTHER -> 0)
    IN Sum[MaxItems + 1]

RECURSIVE BackEdgesNull(_, _, _, _, _)
\* out, extracted from val below the ancestors anc, is null wherever the
\* walk meets a reference to an ancestor
BackEdgesNull(h, val, out, anc, private) ==
  IF ~IsObject(val) THEN TRUE
  ELSE IF val.id \in anc THEN out = Null
  ELSE
    LET o == h[val.id]
    IN CASE o.k = "array" ->
              /\ out.t = "arr"
              /\ Len(out.items) = Len(o.items)
              /\ \A i \in 1..Len(o.items) :
                   BackEdgesNull(h, o.items[i], out.items[i],
                                 anc \cup {val.id}, private)
         [] o.k = "plain" ->
              /\ out.t = "obj"
              /\ \A i \in 1..Len(o.props) :
                   (/\ Walked(o.props[i], private)
                    /\ BackEdges(h, o.props[i].v, anc \cup {val.id}, private) > 0) =>
                     /\ o.props[i].key \in DOMAIN out.props
                     /\ BackEdgesNull(h, o.props[i].v, out.props[o.props[i].key],
                                      anc \cup {val.id}, private)
         [] OTHER -> TRUE

\* the mapped fields of the record that are read without an error
ReadFields ==
  {i \in 1..Len(mapping.e) :
     /\ HasOwn(heap[dbObject.id], mapping.e[i][1])
     /\ ~FieldThrows(heap[dbObject.id], mapping.e[i][1])}

FieldBackEdges(i, private) ==
  BackEdges(heap, FieldValue(heap[dbObject.id], mapping.e[i][1]),
            {dbObject.id}, private)

RECURSIVE SumFieldBackEdges(_, _)
SumFieldBackEdges(is, private) ==
  IF is = {} THEN 0
  ELSE LET i == CHOOSE j \in is : TRUE
       IN FieldBackEdges(i, private) + SumFieldBackEdges(is \ {i}, private)

\* the statement about a record with back references, for either reading of
\* "through nested plain objects"
BackReferencesBroken(private) ==
  (ObjectCall /\ SumFieldBackEdges(ReadFields, private) > 0) =>
    /\ \A i \in ReadFields :
         /\ mapping.e[i][2] \in DOMAIN objResult.v
         /\ BackEdgesNull(heap, FieldValue(heap[dbObject.id], mapping.e[i][1]),
                          objResult.v[mapping.e[i][2]], {dbObject.id}, private)
         /\ FieldBackEdges(i, private) = 0 =>
              objResult.v[mapping.e[i][2]] =
                extractPropertyValue(heap, FieldValue(heap[dbObject.id],
                                                      mapping.e[i][1]), {}).v
    /\ metrics.circularReferencesDetected = SumFieldBackEdges(ReadFields, private)
    /\ IS_FALLBACK \notin DOMAIN objResult.v

\* C9 (as claimed): whenever a mapped field refers back to the record or to an
\* ancestor through nested plain objects and arrays, the call returns, the
\* back-referencing branch is null and circularReferencesDetected counts it.
C9_Original == BackReferencesBroken(TRUE)

\* C9 (amended): the same for back references met through array elements and
\* the enumerated members of plain objects (own, not '_'-prefixed, not
\* function-valued); every sanitizeObject call returns, its visited set empty.
C9_BackReferencesBroken ==
  /\ BackReferencesBroken(FALSE)
  /\ (objResult = Idle /\ IsObject(dbObject)) =>
       sanitizeObject(heap, dbObject, mapping, {}).vis = {}

\* ID refers back to the record through a nested plain object, TITLE is extracted
C9_Witness ==
  /\ ObjectCall
  /\ mapping = CustomMapping
  /\ heap[2] = Plain(<<Prop("x", Ref(1))>>)
  /\ objResult.v = ("id" :> OutObj("x" :> Null)) @@ ("title" :> Str(<<"a">>))
  /\ metrics.circularReferencesDetected = 1

extractClobData(h, obj, clobFields, m) ==
  IF ~IsObject(obj)
  THEN ClobStateFor(<<>>, 1, <<>>, m, FALSE)
  ELSE extractClobFields(h, h[obj.id],
         ClobStateFor(IF IsArray(clobFields) THEN clobFields.items
                      ELSE CLOB_FIELDS,
                      1, <<>>, m, FALSE))

\* where a direct call stands: awaiting a getData, or returned
ClobCall(clobFields, c, outcomes) ==
  [status |-> IF c.waiting THEN "awaiting" ELSE "returned",
   clobFields |-> clobFields, c |-> c, outcomes |-> outcomes]

\* the field names a call may ask for
ClobFieldNames == {"CONTENT", "SOURCES", "EXTRA"}

\* lists of distinct field names, and two values that are not arrays
ClobFieldLists ==
  {ArrayOf(l) : l \in {q \in SeqsUpTo(ClobFieldNames, MaxLen) :
                         \A i, j \in 1..Len(q) : q[i] = q[j] => i = j}}
    \cup {Undef, Str(<<"a">>)}

\* what a CLOB field of a record may hold: 2 is a CLOB handle, 3 a wrapped
\* value
ClobFieldValues ==
  {Null, Str(<<"a">>), EmptyString, Num(1), Ref(2), Ref(3)}

ClobRecords ==
  {Plain(a \o b) : a \in FieldOptions("CONTENT", ClobFieldValues),
                   b \in FieldOptions("SOURCES", ClobFieldValues)}

\* { value: v } for v of several types, and a value getter that throws
ClobWrapped ==
  {Wrapped(v) : v \in {Str(<<"a">>), EmptyString, Num(1), Num(0), Null}}
    \cup {WrappedThrows}

\* getData() resolves to a string, to null, to undefined, to a number, or
\* is rejected
ClobOutcomes == GetDataOutcomes \cup {Resolved(Undef), Resolved(Num(1))}

InitClob ==
  /\ objResult = Idle
  /\ mapping = ARTICLE_FIELD_MAPPING
  /\ metrics = ZeroMetrics
  /\ dbArray = Null
  /\ options = [batchSize |-> Undef, parallel |-> Undef]
  /\ pc = "idle"
  /\ calls = 0
  /\ parallel = FALSE
  /\ batches = <<>>
  /\ tasks = <<>>
  /\ batchIndex = 0
  /\ results = <<>>
  /\ result = [state |-> "pending"]
  /\ fateLog = <<>>
  /\ dataLog = <<>>
  /\ fnCall = NoFnCall
  /\ \E l \in ClobFieldLists :
       clobCall = [status |-> "idle", clobFields |-> l]
  /\ \/ /\ dbObject = Ref(1)
        /\ \E r \in ClobRecords, w \in ClobWrapped :
             heap = (1 :> r) @@ (2 :> Clob) @@ (3 :> w)
     \/ /\ dbObject \in NonObjects \cup {Ref(1), Ref(2)}
        /\ \E g \in BOOLEAN :
             heap = (1 :> Guarded(g)) @@ (2 :> Clob) @@ (3 :> Wrapped(Null))

\* const data = await DatabaseSanitizer.extractClobData(dbObject, clobFields)
ExtractClobDataCall ==
  /\ clobCall.status = "idle"
  /\ clobCall' = ClobCall(clobCall.clobFields,
                          extractClobData(heap, dbObject, clobCall.clobFields,
                                          metrics),
                          <<>>)
  /\ metrics' = clobCall'.c.m
  /\ UNCHANGED <<heap, mapping, dbObject, objResult, arrayVars, fnCall>>

\* the getData() the call awaits settles, and the call runs on
ClobGetDataSettles ==
  /\ clobCall.status = "awaiting"
  /\ \E outcome \in ClobOutcomes :
       clobCall' = ClobCall(clobCall.clobFields,
                            resumeClobFields(heap, heap[dbObject.id],
                                             [clobCall.c EXCEPT !.m = metrics],
                                             outcome),
                            (clobCall.c.f :> outcome) @@ clobCall.outcomes)
  /\ metrics' = clobCall'.c.m
  /\ UNCHANGED <<heap, mapping, dbObject, objResult, arrayVars, fnCall>>

NextClob == ExtractClobDataCall \/ ClobGetDataSettles

SpecClob == InitClob /\ [][NextClob]_vars


(***************************************************************************)
(* Properties of extractClobData                                           *)
(***************************************************************************)

\* the direct call has returned its map
ClobReturned == clobCall.status = "returned"

\* the map it returned
ClobData == clobCall.c.data

\* the names the call asked for (CLOB_FIELDS when clobFields is no array)
RequestedFields ==
  IF IsArray(clobCall.clobFields) THEN clobCall.clobFields.items
  ELSE CLOB_FIELDS

RequestedNames == {RequestedFields[i] : i \in 1..Len(RequestedFields)}

\* the position of the name k in the list asked for
PositionOf(k) == CHOOSE i \in 1..Len(RequestedFields) : RequestedFields[i] = k

\* the getData of the field k was called and was rejected
GetDataFailed(k) ==
  /\ PositionOf(k) \in DOMAIN clobCall.outcomes
  /\ ~clobCall.outcomes[PositionOf(k)].ok

\* the property k of o holds something extractClobData can read a string from
Readable(h, o, k) ==
  /\ HasOwn(o, k)
  /\ ~FieldThrows(o, k)
  /\ \/ FieldValue(o, k).t = "str"
     \/ HasGetData(h, FieldValue(o, k))
     \/ HasValue(h, FieldValue(o, k)) /\ ~h[FieldValue(o, k).id].throws

\* C11: when extractClobData returns, a dbObject that is not an object has
\* given the empty map, and an object has given a map whose keys are exactly
\* the requested names, with '' for every name whose property is absent, of
\* an unexpected type, or whose retrieval failed
C11_KeysAreRequestedNames ==
  ClobReturned =>
    IF IsObject(dbObject)
    THEN /\ DOMAIN ClobData = RequestedNames
         /\ \A k \in RequestedNames :
              (~Readable(heap, heap[dbObject.id], k) \/ GetDataFailed(k))
                => ClobData[k] = EmptyString
    ELSE DOMAIN ClobData = {}


\* the positions of the requested fields that hold a CLOB handle
HandlePositions(h, o) ==
  {i \in 1..Len(RequestedFields) :
     /\ Readable(h, o, RequestedFields[i])
     /\ HasGetData(h, FieldValue(o, RequestedFields[i]))}

\* the positions of the requested fields whose property throws when read
ThrowingPositions(o) ==
  {i \in 1..Len(RequestedFields) : FieldThrows(o, RequestedFields[i])}

\* what the field k alone determines: its own property and, for a handle,
\* what its own getData settled to
FieldResult(h, o, k, settled) ==
  IF ~Readable(h, o, k) THEN EmptyString
  ELSE IF HasGetData(h, FieldValue(o, k))
  THEN IF settled.ok THEN OrEmpty(settled.v) ELSE EmptyString
  ELSE IF HasValue(h, FieldValue(o, k))
  THEN OrEmpty(h[FieldValue(o, k).id].v)
  ELSE FieldValue(o, k)

\* the outcome of the getData at position i, if there was one
SettledAt(i) ==
  IF i \in DOMAIN clobCall.outcomes THEN clobCall.outcomes[i] ELSE Rejected

\* C12: when extractClobData returns for a record, the getData of every
\* requested handle was awaited once, every requested field holds what its
\* own property and its own getData outcome determine ('' for a rejection
\* and for a getData resolving to null or undefined), whatever happened to
\* the other fields, and clobExtractionFailures has grown by one for each
\* rejected getData (and each property that threw when read)
C12_FieldsResolvedIndependently ==
  (ClobReturned /\ IsObject(dbObject) /\ heap[dbObject.id].k = "plain") =>
    /\ DOMAIN clobCall.outcomes = HandlePositions(heap, heap[dbObject.id])
    /\ \A i \in 1..Len(RequestedFields) :
         /\ RequestedFields[i] \in DOMAIN ClobData
         /\ ClobData[RequestedFields[i]]
              = FieldResult(heap, heap[dbObject.id], RequestedFields[i],
                            SettledAt(i))
    /\ metrics.clobExtractionFailures
         = Cardinality({i \in DOMAIN clobCall.outcomes :
                          ~clobCall.outcomes[i].ok})
           + Cardinality(ThrowingPositions(heap[dbObject.id]))

\* CONTENT's getData was rejected and SOURCES' getData, called after it,
\* resolved to a string that the map holds; one failure was counted
C12_Witness ==
  /\ ClobReturned
  /\ RequestedFields = <<"CONTENT", "SOURCES">>
  /\ DOMAIN clobCall.outcomes = {1, 2}
  /\ ~clobCall.outcomes[1].ok
  /\ clobCall.outcomes[2] = Resolved(Str(<<"x">>))
  /\ ClobData = [CONTENT |-> EmptyString, SOURCES |-> Str(<<"x">>)]
  /\ metrics.clobExtractionFailures = 1


\* C13: every value of the map extractClobData returns is a string, whatever
\* the field held: a handle whose getData resolves to any value, a wrapped
\* { value: v } with v of any type, a plain string, or anything else
C13_ValuesAreStrings ==
  ClobReturned => \A k \in DOMAIN ClobData : ClobData[k].t = "str"


(***************************************************************************)
(* Properties of processBatch's CLOB check and merge                       *)
(***************************************************************************)

\* a sanitizeArray call has returned an array, processBatch and
\* createBatches having run their own code
BatchesProcessed ==
  /\ pc = "done" /\ IsArray(dbArray) /\ NoMockedFailure
  /\ result.state = "fulfilled"
  /\ Len(result.v) = Len(dbArray.items)

\* the name of the output field of clobField: the mapping's, else lower case
OutputField(clobField) ==
  IF KeysThrow(mapping) THEN ToLowerCase(clobField)
  ELSE MappedField(mapping, clobField)

\* what extractClobData gave for field f of the record at pos
Extracted(pos, f) ==
  IF ~IsObject(dbArray.items[pos]) THEN EmptyString
  ELSE FieldResult(heap, heap[dbArray.items[pos].id], CLOB_FIELDS[f],
                   Outcome(calls, pos, f))

\* the record at pos came out with each CLOB field merged in: a non-empty
\* extracted value stands under the output field, an empty one has removed it
ClobMerged(pos) ==
  \A f \in 1..Len(CLOB_FIELDS) :
    IF Extracted(pos, f) # EmptyString
    THEN /\ OutputField(CLOB_FIELDS[f]) \in DOMAIN result.v[pos]
         /\ result.v[pos][OutputField(CLOB_FIELDS[f])] = Extracted(pos, f)
    ELSE OutputField(CLOB_FIELDS[f]) \notin DOMAIN result.v[pos]

\* the record at pos came out as sanitizeObject produced it, and no getData
\* was called for it
LeftAsSanitized(pos) ==
  /\ result.v[pos] = sanitizeObject(heap, dbArray.items[pos], mapping, {}).v
  /\ \A k \in DOMAIN dataLog : k[2] # pos

\* extractClobData ran once for each record with a CLOB field name, and for
\* no other record: it counts one extraction per CLOB field
ExtractionsCounted ==
  metrics.clobExtractionCount
    = Len(CLOB_FIELDS)
        * Cardinality({pos \in 1..Len(dbArray.items) :
                         hasClobFields(heap, dbArray.items[pos])})

ClobCheckAndMerge ==
  /\ ExtractionsCounted
  /\ \A pos \in 1..Len(dbArray.items) :
       IF hasClobFields(heap, dbArray.items[pos])
       THEN ClobMerged(pos) ELSE LeftAsSanitized(pos)

C15_InvalidBatchSizeIsDefault ==
  (/\ pc = "done" /\ IsArray(dbArray) /\ NoMockedFailure
   /\ options.batchSize \in InvalidBatchSizes) =>
    /\ result.state = "fulfilled"
    /\ Len(result.v) = Len(dbArray.items)
    /\ \A pos \in 1..Len(dbArray.items) : result.v[pos] = SanitizedForm(calls, pos)


\* the array of the call is split into batches
Batched ==
  /\ IsArray(dbArray) /\ Len(dbArray.items) > 0
  /\ ~LengthWithin(Len(dbArray.items),
                   effectiveBatchSize(Len(dbArray.items), options).size)

\* C16: when sanitizeArray is given a parallel option that is no boolean (a
\* non-empty string, a number), it works as with parallel: false: no batch is
\* dispatched in parallel mode, and a call that batched its array is counted
\* once as sequential and never as parallel
C16_InvalidParallelIsSequential ==
  (pc # "idle" /\ options.parallel \in InvalidParallels) =>
    /\ metrics.parallelProcessingCount = 0
    /\ pc # "join"
    /\ (Batched /\ Fate(1, 0) # "throw") => metrics.sequentialProcessingCount = 1


(***************************************************************************)
(* The functions that read no state, each called on its own.  Everything   *)
(* else stands still.                                                      *)
(***************************************************************************)
restVars == <<heap, mapping, dbObject, objResult, arrayVars, clobCall>>

NothingElseCalled ==
  /\ mapping = ARTICLE_FIELD_MAPPING
  /\ dbObject = Null
  /\ objResult = Idle
  /\ metrics = ZeroMetrics
  /\ dbArray = Null
  /\ options = [batchSize |-> Undef, parallel |-> Undef]
  /\ pc = "idle"
  /\ calls = 0
  /\ parallel = FALSE
  /\ batches = <<>>
  /\ tasks = <<>>
  /\ batchIndex = 0
  /\ results = <<>>
  /\ result = [state |-> "pending"]
  /\ fateLog = <<>>
  /\ dataLog = <<>>
  /\ clobCall = NoClobCall

(***************************************************************************)
(* sanitizeArray's batch sizing, for arrays of 0..MaxLength records        *)
(***************************************************************************)
SizingOptions ==
  [batchSize : {Undef, Num(DEFAULT_BATCH_SIZE)} \cup InvalidBatchSizes
                 \cup {Num(n) : n \in 1..MaxBatch},
   parallel : {Undef}]

InitSizing ==
  /\ NothingElseCalled
  /\ heap = DefaultHeap
  /\ \E len \in 0..MaxLength, opts \in SizingOptions :
       fnCall = [fn |-> "effectiveBatchSize", len |-> len, opts |-> opts,
                 returned |-> FALSE]

\* let { batchSize = 100 } = options; the optimization for large arrays and
\* the validation, for an array of fnCall.len records
SizeBatches ==
  /\ fnCall.fn = "effectiveBatchSize" /\ ~fnCall.returned
  /\ fnCall' = [fn |-> "effectiveBatchSize", len |-> fnCall.len,
                opts |-> fnCall.opts, returned |-> TRUE,
                sizing |-> effectiveBatchSize(fnCall.len, fnCall.opts)]
  /\ metrics' = [metrics EXCEPT !.batchSizeOptimizations =
                   @ + IF fnCall'.sizing.optimized THEN 1 ELSE 0]
  /\ UNCHANGED restVars

NextSizing == SizeBatches

SpecSizing == InitSizing /\ [][NextSizing]_vars

Sized == fnCall.fn = "effectiveBatchSize" /\ fnCall.returned

\* C17: an array of more than 1000 records with no batchSize given is worked
\* with the batch size min(200, max(50, floor(length / 10))), which lies in
\* 50..200, and batchSizeOptimizations grows by one; for an array of 1000
\* records or fewer nothing is optimized: the default stays 100 and a given
\* positive integer stays as given
C17_LargeArraySizing ==
  Sized =>
    IF fnCall.len > 1000
    THEN fnCall.opts.batchSize = Undef =>
           /\ fnCall.sizing.size.t = "num"
           /\ \/ fnCall.len \div 10 >= 200 /\ fnCall.sizing.size.n = 200
              \/ fnCall.len \div 10 <= 50 /\ fnCall.sizing.size.n = 50
              \/ /\ 50 < fnCall.len \div 10 /\ fnCall.len \div 10 < 200
                 /\ fnCall.sizing.size.n = fnCall.len \div 10
           /\ 50 <= fnCall.sizing.size.n /\ fnCall.sizing.size.n <= 200
           /\ metrics.batchSizeOptimizations = 1
    ELSE /\ metrics.batchSizeOptimizations = 0
         /\ fnCall.opts.batchSize = Undef => fnCall.sizing.size = Num(100)
         /\ (fnCall.opts.batchSize.t = "num" /\ fnCall.opts.batchSize.n > 0)
              => fnCall.sizing.size = fnCall.opts.batchSize

\* an array of 1505 records, no batchSize given, was sized at 150 and the
\* optimization counted
C17_Witness ==
  /\ Sized /\ fnCall.len = 1505 /\ fnCall.opts.batchSize = Undef
  /\ fnCall.sizing.size = Num(150)
  /\ metrics.batchSizeOptimizations = 1


(***************************************************************************)
(* arrayToObject                                                           *)
(***************************************************************************)

\* if (value instanceof Date) value = value.toISOString()
rowValue(h, value) ==
  IF IsObject(value) /\ h[value.id].k = "date" THEN Str(IsoString) ELSE value

\* a row that never omits a field: a missing position is filled with null
RECURSIVE rowToObjectPadded(_, _, _, _, _)
rowToObjectPadded(h, row, fieldNames, index, cleanObject) ==
  IF index > Len(fieldNames) THEN cleanObject
  ELSE rowToObjectPadded(h, row, fieldNames, index + 1,
         (MappedField(ARTICLE_FIELD_MAPPING, fieldNames[index])
            :> IF index > Len(row) THEN Null ELSE rowValue(h, row[index]))
           @@ cleanObject)

RECURSIVE rowToObject(_, _, _, _, _)
\* fieldNames.forEach((fieldName, index) => { if (index < row.length) ... })
\* from the field at position index on
rowToObject(h, row, fieldNames, index, cleanObject) ==
  IF index > Len(fieldNames) THEN cleanObject
  ELSE IF index > Len(row)
  THEN rowToObject(h, row, fieldNames, index + 1, cleanObject)
  ELSE rowToObject(h, row, fieldNames, index + 1,
         (MappedField(ARTICLE_FIELD_MAPPING, fieldNames[index])
            :> rowValue(h, row[index])) @@ cleanObject)

\* arrayToObject(dbArray, fieldNames): the array of records
arrayToObject(h, arr, fieldNames) ==
  IF ~IsArray(arr) THEN <<>>
  ELSE [i \in 1..Len(arr.items) |->
          IF ~IsArray(arr.items[i]) THEN <<>>
          ELSE rowToObject(h, arr.items[i].items, fieldNames, 1, <<>>)]

\* 1 is a Date, 2 a plain object
RowHeap == (1 :> DateObj(TRUE)) @@ (2 :> Plain(<<>>))

\* what a position of a row holds
RowValues == {Num(1), Str(<<"a">>), Ref(1)}

\* rows of 0..MaxRowLen values, and rows that are no arrays
Rows ==
  {ArrayOf(r) : r \in SeqsUpTo(RowValues, MaxRowLen)} \cup {Null, Ref(2)}

\* arrays of 0..MaxRows rows, and values that are no arrays
RowArrays ==
  {ArrayOf(rows) : rows \in SeqsUpTo(Rows, MaxRows)} \cup {Null, Str(<<"a">>)}

\* field lists: two article fields and a field ARTICLE_FIELD_MAPPING does not
\* name, in lists of 0..MaxFields, and the list ID, TITLE, SLUG
FieldLists ==
  SeqsUpTo({"ID", "TITLE", "CUSTOM_FIELD"}, MaxFields)
    \cup {<<"ID", "TITLE", "SLUG">>}

InitRows ==
  /\ NothingElseCalled
  /\ heap = RowHeap
  /\ \E arr \in RowArrays, fieldNames \in FieldLists :
       fnCall = [fn |-> "arrayToObject", dbArray |-> arr,
                 fieldNames |-> fieldNames, returned |-> FALSE]

\* const records = DatabaseSanitizer.arrayToObject(dbArray, fieldNames)
ArrayToObjectCall ==
  /\ fnCall.fn = "arrayToObject" /\ ~fnCall.returned
  /\ fnCall' = [fn |-> "arrayToObject", dbArray |-> fnCall.dbArray,
                fieldNames |-> fnCall.fieldNames, returned |-> TRUE,
                records |-> arrayToObject(heap, fnCall.dbArray,
                                          fnCall.fieldNames)]
  /\ UNCHANGED <<metrics, restVars>>

NextRows == ArrayToObjectCall

SpecRows == InitRows /\ [][NextRows]_vars

RowsConverted == fnCall.fn = "arrayToObject" /\ fnCall.returned

\* the positions of a row that have a field name
NamedPositions(row) ==
  {j \in 1..Len(fnCall.fieldNames) : j <= Len(row)}

\* the key the record has for the field at position j
KeyAt(j) == MappedField(ARTICLE_FIELD_MAPPING, fnCall.fieldNames[j])

\* record is what the array row gives: a key for each named position and no
\* other, each holding the row's value at the last position of that key
RecordOfRow(record, row) ==
  /\ DOMAIN record = {KeyAt(j) : j \in NamedPositions(row)}
  /\ \A j \in NamedPositions(row) :
       (\A j2 \in NamedPositions(row) : j2 > j => KeyAt(j2) # KeyAt(j))
         => record[KeyAt(j)] = rowValue(heap, row[j])

\* C18: arrayToObject returns one record per row, in the order of the rows: a
\* row shorter than the field list gives a record without the trailing
\* fields, a longer row has its extra positions ignored, a row that is no
\* array gives {}, and an input that is no array gives []
C18_OneRecordPerRow ==
  RowsConverted =>
    IF ~IsArray(fnCall.dbArray) THEN fnCall.records = <<>>
    ELSE /\ Len(fnCall.records) = Len(fnCall.dbArray.items)
         /\ \A i \in 1..Len(fnCall.records) :
              IF ~IsArray(fnCall.dbArray.items[i])
              THEN DOMAIN fnCall.records[i] = {}
              ELSE RecordOfRow(fnCall.records[i], fnCall.dbArray.items[i].items)

\* two rows came out in order: a row of one value under two field names,
\* which has the first field only, and a row of three values, which has both
\* fields and nothing for its third value
C18_Witness ==
  /\ RowsConverted
  /\ fnCall.fieldNames = <<"ID", "CUSTOM_FIELD">>
  /\ fnCall.dbArray = ArrayOf(<<ArrayOf(<<Str(<<"a">>)>>),
                                ArrayOf(<<Num(1), Ref(1), Num(1)>>)>>)
  /\ fnCall.records = <<[ID |-> Str(<<"a">>)],
                        [ID |-> Num(1), custom_field |-> Str(IsoString)]>>


\* C19: every field with a value comes out under the lower-cased field name,
\* the article fields included: arrayToObject([[1, 'a', 'a']],
\* ['ID', 'TITLE', 'SLUG']) is [{ id: 1, title: 'a', slug: 'a' }]
C19_LowerCaseKeys ==
  RowsConverted =>
    \A i \in 1..Len(fnCall.records) :
      IsArray(fnCall.dbArray.items[i]) =>
        DOMAIN fnCall.records[i]
          = {ToLowerCase(fnCall.fieldNames[j]) :
               j \in NamedPositions(fnCall.dbArray.items[i].items)}


(***************************************************************************)
(* validateAndSanitizeValue, applied to a value and then to its own result *)
(***************************************************************************)

\* strings of 0..MaxChars characters: printable, white space and control
Strings == {Str(s) : s \in SeqsUpTo({"a", " ", "c"}, MaxChars)}

\* numbers: finite ones, NaN, Infinity and -Infinity
Numbers ==
  {Num(0), Num(1), Num(0 - 1), Half(3), NaNV, InfinityV(FALSE), InfinityV(TRUE)}

\* the values validateAndSanitizeValue is given
ValidatedValues ==
  Strings \cup Numbers \cup {Bool(TRUE), Bool(FALSE), Null, Undef, Func, Ref(1)}

InitValue ==
  /\ NothingElseCalled
  /\ heap = DefaultHeap
  /\ \E value \in ValidatedValues :
       fnCall = [fn |-> "validateAndSanitizeValue", value |-> value,
                 applied |-> 0]

\* const once = DatabaseSanitizer.validateAndSanitizeValue(value)
ValidateValue ==
  /\ fnCall.fn = "validateAndSanitizeValue" /\ fnCall.applied = 0
  /\ fnCall' = [fn |-> "validateAndSanitizeValue", value |-> fnCall.value,
                applied |-> 1,
                once |-> validateAndSanitizeValue(fnCall.value)]
  /\ UNCHANGED <<metrics, restVars>>

\* const twice = DatabaseSanitizer.validateAndSanitizeValue(once)
ValidateAgain ==
  /\ fnCall.fn = "validateAndSanitizeValue" /\ fnCall.applied = 1
  /\ fnCall' = [fn |-> "validateAndSanitizeValue", value |-> fnCall.value,
                applied |-> 2, once |-> fnCall.once,
                twice |-> validateAndSanitizeValue(fnCall.once)]
  /\ UNCHANGED <<metrics, restVars>>

NextValue == ValidateValue \/ ValidateAgain

SpecValue == InitValue /\ [][NextValue]_vars

\* the string s without its control characters
WithoutControl(s) == SelectSeq(s, LAMBDA ch : ch # "c")

\* s neither starts nor ends with white space
Trimmed(s) == s = <<>> \/ (s[1] # " " /\ s[Len(s)] # " ")

\* t is s without some white space at its start and at its end
TrimOf(t, s) ==
  \E a, b \in 0..Len(s) :
    /\ a + b + Len(t) = Len(s)
    /\ t = SubSeq(s, a + 1, Len(s) - b)
    /\ \A i \in (1..a) \cup ((Len(s) - b + 1)..Len(s)) : s[i] = " "

\* once is what the claim says of value
Validated(value, once) ==
  CASE value.t = "str" ->
         /\ once.t = "str"
         /\ Trimmed(once.s)
         /\ TrimOf(once.s, WithoutControl(value.s))
    [] value.t \in {"nan", "inf"} -> once = Null
    [] OTHER -> once = value

\* C20: validateAndSanitizeValue gives a string with its control characters
\* removed and then trimmed, null for NaN, Infinity and -Infinity, and every
\* finite number, boolean, null and undefined as it is; applied to its own
\* result for a string or a number it gives that result again
C20_ValidateIdempotent ==
  /\ (fnCall.fn = "validateAndSanitizeValue" /\ fnCall.applied >= 1)
       => Validated(fnCall.value, fnCall.once)
  /\ (fnCall.fn = "validateAndSanitizeValue" /\ fnCall.applied = 2
        /\ (fnCall.value.t = "str" \/ IsNumber(fnCall.value)))
       => fnCall.twice = fnCall.once

\* a string with a control character between white space and a printable
\* character was validated twice: both results are the printable character
C20_Witness ==
  /\ fnCall.fn = "validateAndSanitizeValue" /\ fnCall.applied = 2
  /\ fnCall.value = Str(<<" ", "c", " ", "a">>)
  /\ fnCall.once = Str(<<"a">>)
  /\ fnCall.twice = Str(<<"a">>)


(***************************************************************************)
(* Properties of extractPropertyValue                                      *)
(***************************************************************************)

\* the mapped field dbField of the record holds a wrapped scalar { value: v }
HoldsWrapped(o, dbField) ==
  /\ HasOwn(o, dbField) /\ ~FieldThrows(o, dbField)
  /\ HasValue(heap, FieldValue(o, dbField))

\* C21: a mapped field holding a wrapped scalar { value: v } comes out as the
\* extraction of v: v validated when it is a primitive, the recursively
\* extracted plain value when v is a wrapped scalar, an array or a nested
\* structure, and null when reading the value accessor throws
C21_WrappedValueExtracted ==
  ObjectCall =>
    \A i \in 1..Len(mapping.e) :
      HoldsWrapped(heap[dbObject.id], mapping.e[i][1]) =>
        /\ mapping.e[i][2] \in DOMAIN objResult.v
        /\ objResult.v[mapping.e[i][2]]
             = IF heap[FieldValue(heap[dbObject.id], mapping.e[i][1]).id].throws
               THEN Null
               ELSE extractPropertyValue(
                      heap,
                      heap[FieldValue(heap[dbObject.id], mapping.e[i][1]).id].v,
                      {dbObject.id,
                       FieldValue(heap[dbObject.id], mapping.e[i][1]).id}).v


(***************************************************************************)
(* Termination of sanitizeArray.  The engine runs every continuation that  *)
(* is ready (the microtask queue is drained), and the hypothesis that      *)
(* every getData() settles is weak fairness of GetDataSettles.  Weak       *)
(* fairness of an action A is []<>(~ENABLED <<A>>_vars) \/ []<><<A>>_vars; *)
(* it is written out below with the condition under which the action is    *)
(* enabled, read off the guard of the action.                              *)
(***************************************************************************)

\* a getData() promise of the sanitizeArray call is still pending
GetDataPending == \E tid \in DOMAIN tasks : tasks[tid].status = "awaiting"

\* the batch awaited by the sequential loop has settled
SequentialBatchReady ==
  pc = "seq" /\ tasks[<<calls, batchIndex>>].status # "awaiting"

\* Promise.all(batchPromises) has settled: every batch promise is settled, or
\* one of them is rejected
ParallelJoinReady ==
  /\ pc = "join"
  /\ \/ \A i \in 1..Len(batches) : tasks[<<calls, i>>].status # "awaiting"
     \/ batchHandlers(Machine, mapping, 1, <<>>, FALSE).thrown

\* the calls whose termination is checked: a valid batch size or none, the
\* sequential and the parallel mode
FairOptions ==
  [batchSize : {Undef} \cup {Num(n) : n \in 1..MaxBatch},
   parallel : {Undef, Bool(TRUE)}]

InitFair == Init /\ options \in FairOptions

SpecFair ==
  /\ InitFair
  /\ [][Next]_vars
  /\ WF_vars(SmallBatchSettles)
  /\ ([]<>(~GetDataPending) \/ []<><<GetDataSettles>>_vars)
  /\ ([]<>(~SequentialBatchReady) \/ []<><<SequentialBatchSettles>>_vars)
  /\ ([]<>(~ParallelJoinReady)
        \/ []<><<ParallelJoin \/ ParallelJoinFails>>_vars)

\* a sanitizeArray call that was made returns
C22_EventuallyReturns == (pc # "idle") ~> (pc = "done")

\* the processBatch of the engine itself ran, that of no test double, and the
\* call returned
ReturnedByEngine == NoMockedFailure /\ pc = "done"

\* C22: when every getData() settles a sanitizeArray call that was made
\* returns, in sequential and in parallel mode; no pending getData() is
\* cancelled or timed out, so the call does not return while a getData() it
\* made is pending
C22_Termination ==
  /\ C22_EventuallyReturns
  /\ [](ReturnedByEngine => ~GetDataPending)

\* a call on the parallel path and one on the sequential path returned after
\* a getData() settled
C22_Witness ==
  /\ ReturnedByEngine
  /\ dataLog # <<>>
  /\ metrics.parallelProcessingCount > 0


(***************************************************************************)
(* The visited set (checked under SpecObj).                                *)
(***************************************************************************)
\* the values held by the fields of the record
FieldValues(o) ==
  IF o.k # "plain" THEN {}
  ELSE {o.props[i].v : i \in {j \in 1..Len(o.props) : ~o.props[j].throws}}

\* sanitizeObject leaves the visited set as it found it
SetRestoredByObject ==
  objResult.state = "returned" => objResult.vis = objResult.entry

\* extractPropertyValue leaves the visited set as it found it, whatever the
\* value and the set
SetRestoredByProperty ==
  (objResult.state = "returned" /\ IsObject(dbObject)) =>
    \A v \in FieldValues(heap[dbObject.id]), entered \in SUBSET DOMAIN heap :
      extractPropertyValue(heap, v, entered).vis = entered

\* a compound value held by a mapped field is extracted as it is on its own,
\* whatever the fields before it held: a value shared by two fields is
\* extracted in full at both
SiblingsExtractedInFull ==
  ObjectCall =>
    \A i \in 1..Len(mapping.e) :
      LET o == heap[dbObject.id]
          dbField == mapping.e[i][1]
      IN (HasOwn(o, dbField) /\ ~FieldThrows(o, dbField)
            /\ IsObject(FieldValue(o, dbField))) =>
           objResult.v[mapping.e[i][2]]
             = extractPropertyValue(heap, FieldValue(o, dbField), {dbObject.id}).v

\* C23: the visited set is what it was on entry when extractPropertyValue or
\* sanitizeObject returns, normally or after a caught error, and an object
\* referenced from two sibling fields is extracted in full at both
C23_VisitedSetRestored ==
  /\ SetRestoredByObject
  /\ SetRestoredByProperty
  /\ SiblingsExtractedInFull


\* the mapped field dbField of the record holds a CLOB handle: an object with
\* a getData method and no value property of its own
HoldsHandle(o, dbField) ==
  /\ HasOwn(o, dbField) /\ ~FieldThrows(o, dbField)
  /\ HasGetData(heap, FieldValue(o, dbField))

\* C24: sanitizeObject and the extractPropertyValue calls it makes invoke no
\* getData: a mapped field holding a CLOB handle comes out as that same
\* handle, no getData call is recorded and no extraction is counted
C24_HandleReturnedUnread ==
  ObjectCall =>
    /\ \A i \in 1..Len(mapping.e) :
         HoldsHandle(heap[dbObject.id], mapping.e[i][1]) =>
           /\ mapping.e[i][2] \in DOMAIN objResult.v
           /\ objResult.v[mapping.e[i][2]]
                = FieldValue(heap[dbObject.id], mapping.e[i][1])
    /\ dataLog = <<>>
    /\ metrics.clobExtractionCount = 0

\* a record with a CLOB handle in a mapped field was sanitized
C24_Witness ==
  /\ ObjectCall
  /\ \E i \in 1..Len(mapping.e) :
       /\ HoldsHandle(heap[dbObject.id], mapping.e[i][1])
       /\ objResult.v[mapping.e[i][2]]
            = FieldValue(heap[dbObject.id], mapping.e[i][1])


(***************************************************************************)
(* createBatches on its own, for arrays of 0..MaxArray records (record k   *)
(* of the array is the number k) and batch sizes up to MaxSize             *)
(***************************************************************************)
MaxArray == 12
MaxSize == 8

InitBatches ==
  /\ NothingElseCalled
  /\ heap = DefaultHeap
  /\ \E len \in 0..MaxArray,
        size \in {Num(n) : n \in 1..MaxSize} \cup InvalidBatchSizes :
       fnCall = [fn |-> "createBatches", array |-> [k \in 1..len |-> k],
                 batchSize |-> size, returned |-> FALSE]

\* DatabaseSanitizer.createBatches(array, batchSize)
CreateBatchesCall ==
  /\ fnCall.fn = "createBatches" /\ ~fnCall.returned
  /\ fnCall' = [fnCall EXCEPT !.returned = TRUE] @@
                 [batches |-> createBatches(fnCall.array, fnCall.batchSize)]
  /\ UNCHANGED <<restVars, metrics>>

NextBatches == CreateBatchesCall

SpecBatches == InitBatches /\ [][NextBatches]_vars

\* createBatches returned, having been given a positive integer
BatchesCreated ==
  /\ fnCall.fn = "createBatches" /\ fnCall.returned
  /\ fnCall.batchSize.t = "num" /\ fnCall.batchSize.n > 0

\* C25: for a positive integer n createBatches(array, n) gives contiguous
\* slices in input order whose concatenation is the array; every slice but
\* the last has n elements, the last has 1..n, and an empty array gives no
\* batch
C25_BatchesPartitionArray ==
  BatchesCreated =>
    LET b == fnCall.batches
        n == fnCall.batchSize.n
    IN /\ Flatten(b) = fnCall.array
       /\ \A i \in 1..Len(b) :
            /\ Len(b[i]) >= 1 /\ Len(b[i]) <= n
            /\ i < Len(b) => Len(b[i]) = n
       /\ fnCall.array = <<>> => b = <<>>

\* an array whose length is no multiple of the batch size was split into
\* several batches
C25_Witness ==
  /\ BatchesCreated
  /\ Len(fnCall.batches) >= 3
  /\ Len(fnCall.array) % fnCall.batchSize.n # 0


(***************************************************************************)
(* resetPerformanceMetrics.  It may be called at any time: before a        *)
(* sanitizeArray call, after it, and between two of its stretches, while   *)
(* getData() promises are pending.  fnCall records that it was called, and *)
(* it is called once.                                                      *)
(***************************************************************************)
ResetOptions == [batchSize : {Num(1)}, parallel : {Undef, Bool(TRUE)}]

MaxResetLen == 2

InitReset ==
  /\ Init
  /\ mapping \in {ARTICLE_FIELD_MAPPING, NullMapping}
  /\ options \in ResetOptions
  /\ IsArray(dbArray) => Len(dbArray.items) <= MaxResetLen

\* DatabaseSanitizer.resetPerformanceMetrics(): SanitizationLogger.resetMetrics()
ResetPerformanceMetrics ==
  /\ fnCall = NoFnCall
  /\ metrics' = ZeroMetrics
  /\ fnCall' = [fn |-> "resetPerformanceMetrics"]
  /\ UNCHANGED <<heap, mapping, dbObject, objResult, dbArray, options, pc,
                 calls, parallel, batches, tasks, batchIndex, results, result,
                 fateLog, dataLog, clobCall>>

NextReset ==
  \/ Next
  \/ ResetPerformanceMetrics

SpecReset == InitReset /\ [][NextReset]_vars

\* a direct extractClobData call, and resetPerformanceMetrics at any time
NextClobReset ==
  \/ NextClob
  \/ ResetPerformanceMetrics

SpecClobReset == InitClob /\ [][NextClobReset]_vars

\* C27: in every reachable state clobExtractionFailures <= clobExtractionCount,
\* also with a reset while an extraction is suspended at getData()
C27_FailuresWithinCount ==
  metrics.clobExtractionFailures <= metrics.clobExtractionCount


(***************************************************************************)
(* The counters (checked under SpecReset).                                 *)
(***************************************************************************)
Counters ==
  {"sanitizationCount", "errorCount", "clobExtractionCount",
   "clobExtractionFailures", "totalBatches", "processedArrays",
   "fallbackObjectsCreated"}

\* no counter goes down in the step, unless the step is the reset
CountersGrow ==
  ResetPerformanceMetrics \/ \A c \in Counters : metrics'[c] >= metrics[c]

\* the reset leaves every counter at 0
ResetZeroes ==
  fnCall' # fnCall => \A c \in DOMAIN metrics : metrics'[c] = 0

\* a sanitizeArray call has settled, no reset in between
SettledUnreset == pc = "done" /\ fnCall = NoFnCall /\ IsArray(dbArray)

\* the records of the call for which sanitizeObject returns a record that is
\* no fallback: the objects, when the mapping can be enumerated
SanitizedRecords ==
  {i \in 1..Len(dbArray.items) : IsObject(dbArray.items[i]) /\ mapping.t = "map"}

\* sanitizationCount has grown by one for each sanitizeObject call that
\* returned a record that is no fallback, fallbackObjectsCreated by one for
\* each of the others, which returned a fallback record
CountedPerCall ==
  (SettledUnreset /\ NoMockedFailure) =>
    /\ metrics.sanitizationCount = Cardinality(SanitizedRecords)
    /\ metrics.fallbackObjectsCreated
         = Len(dbArray.items) - Cardinality(SanitizedRecords)

\* where a batch failed, fallbackObjectsCreated++ was run once for each
\* fallback record that createFallbackObject(fieldMapping) built
CountedPerFallback ==
  (SettledUnreset /\ ~NoMockedFailure) =>
    \A n \in 1..Len(dbArray.items) :
      Fallbacks(n, mapping).fb = Len(Fallbacks(n, mapping).v)

\* C26: between resets no counter decreases; sanitizationCount grows by one
\* per sanitizeObject call that returns a record that is no fallback and
\* fallbackObjectsCreated by one per fallback record built; the reset
\* returns every counter to 0
C26_CountersAppendOnly ==
  /\ [][CountersGrow]_vars
  /\ [][ResetZeroes]_vars
  /\ [](CountedPerCall /\ CountedPerFallback)


\* C28: every key of a record that sanitizeArray returns is an output field
\* name of the field mapping given to the call or one of the two marker
\* fields, also when the record carries CONTENT or SOURCES and the mapping
\* has no entry for them
C28_KeysWithinMapping ==
  (pc = "done" /\ result.state = "fulfilled" /\ mapping.t = "map") =>
    \A i \in 1..Len(result.v) :
      DOMAIN result.v[i] \subseteq
        CleanFields(mapping) \cup {IS_FALLBACK, FALLBACK_REASON}

\* the same, for the records that are no fallback
C28_SanitizedKeysWithinMapping ==
  (pc = "done" /\ result.state = "fulfilled" /\ mapping.t = "map") =>
    \A i \in 1..Len(result.v) :
      IS_FALLBACK \notin DOMAIN result.v[i] =>
        DOMAIN result.v[i] \subseteq CleanFields(mapping)


\* Math.ceil(len / size): the batches that createBatches makes of len records
BatchCount(len, size) == (len + size - 1) \div size

\* C29: a positive integer given as batchSize is the batch size the call
\* works with, whatever the length of the array: an array of more records
\* than that is split into ceil(length / batchSize) batches
C29_GivenBatchSizeUsed ==
  (Sized /\ fnCall.opts.batchSize.t = "num" /\ fnCall.opts.batchSize.n > 0) =>
    /\ fnCall.sizing.size = fnCall.opts.batchSize
    /\ fnCall.len > fnCall.opts.batchSize.n =>
         BatchCount(fnCall.len, fnCall.sizing.size.n)
           = BatchCount(fnCall.len, fnCall.opts.batchSize.n)

\* the same, for every given batch size but 100
C29_OtherBatchSizesUsed ==
  (Sized /\ fnCall.opts.batchSize.t = "num" /\ fnCall.opts.batchSize.n > 0
     /\ fnCall.opts.batchSize.n # DEFAULT_BATCH_SIZE) =>
    fnCall.sizing.size = fnCall.opts.batchSize


(***************************************************************************)
(* How many getData() promises are pending (checked under Spec).           *)
(***************************************************************************)
\* the processBatch calls that are suspended at a getData()
Awaiting == {tid \in DOMAIN tasks : tasks[tid].status = "awaiting"}

\* the call was asked for the sequential mode: parallel left out or falsy
SequentialAsked == options.parallel = Undef \/ Falsy(options.parallel)

\* record j of the batch holds a CLOB handle in CLOB field f
HandleAt(batch, j, f) ==
  /\ IsObject(batch[j])
  /\ heap[batch[j].id].k = "plain"
  /\ HoldsHandle(heap[batch[j].id], CLOB_FIELDS[f])

\* (j, f) comes before (i, g) in the order records and their CLOB fields are
\* taken in
Before(j, f, i, g) == j < i \/ (j = i /\ f < g)

\* a processBatch suspended at the getData() of field f of record i has seen
\* every getData() of the records and fields before settle, and has called
\* none of those after
RecordsInTurn ==
  \A tid \in Awaiting :
    LET task == tasks[tid]
    IN \A j \in 1..Len(task.batch), f \in 1..Len(CLOB_FIELDS) :
         /\ (Before(j, f, task.i, task.f) /\ HandleAt(task.batch, j, f))
              => <<tid[1], task.off + j, f>> \in DOMAIN dataLog
         /\ ~Before(j, f, task.i, task.f)
              => <<tid[1], task.off + j, f>> \notin DOMAIN dataLog

\* in sequential mode one getData() at most is pending, that of the batch at
\* hand; the batches after it have not been started
BatchesInTurn ==
  SequentialAsked =>
    /\ Cardinality(Awaiting) <= 1
    /\ \A tid \in DOMAIN tasks :
         /\ tid[2] <= batchIndex
         /\ tid \in Awaiting => (tid = <<calls, batchIndex>> /\ pc \in {"small", "seq"})

\* C30: within a processBatch call the records, and the CLOB fields of a
\* record, are taken one after the other, so one getData() at most is
\* pending per batch; in sequential mode one at most is pending in the whole
\* call and batch k+1 is not started before batch k has finished
C30_OnePendingPerBatch == RecordsInTurn /\ BatchesInTurn

\* in parallel mode two batches are suspended at a getData() at once, one of
\* them at its second record, the getData() of its first having settled
C30_Witness ==
  /\ pc = "join"
  /\ Cardinality({tid \in Awaiting : tid[1] = calls}) >= 2
  /\ \E tid \in Awaiting :
       /\ tasks[tid].i = 2
       /\ <<tid[1], tasks[tid].off + 1, 1>> \in DOMAIN dataLog

====
